---- MODULE Spec2Model ----
(***************************************************************************)
(* A model of note-c-zero's JSONB codec (src/jsonb.c): the COBS            *)
(* primitives, the formatter's append primitive and its callers, the       *)
(* framer (jsonbFormatEnd) and the parser's entry point (jsonbParse).      *)
(*                                                                         *)
(* Memory is a flat, sparse byte array: a function from C indices          *)
(* (0-based offsets from a base pointer) to bytes 0..255.  A write at an   *)
(* index outside the function's domain extends the domain, so a write past *)
(* the caller's buffer is kept and can be seen; whether it happened is     *)
(* read off the domain.                                                    *)
(***************************************************************************)
EXTENDS Integers, Sequences, FiniteSets, TLC

VARIABLES cobs, ctx, last, par, trap

vars == <<cobs, ctx, last, par, trap>>

(***************************************************************************)
(* Bounds of the model.                                                    *)
(***************************************************************************)
\* longest byte sequence enumerated exhaustively for the COBS primitives
MaxLen == 3

(***************************************************************************)
(* Program constants.                                                      *)
(***************************************************************************)
JSONB_TERMINATOR == 10
JSONB_INVALID == 0
JSONB_BEGIN_OBJECT == 16
JSONB_ITEM == 48
JSONB_STRING == 64
JSONB_BIN8 == 81
JSONB_BIN16 == 82
JSONB_BIN24 == 83
JSONB_BIN32 == 84
JSONB_INT8 == 97
JSONB_INT32 == 100
JSONB_END_OBJECT == 17
JSONB_BEGIN_ARRAY == 18
JSONB_END_ARRAY == 19
JSONB_NULL == 32
JSONB_TRUE == 33
JSONB_FALSE == 34
JSONB_INT16 == 98
JSONB_INT64 == 104
JSONB_UINT8 == 113
JSONB_UINT16 == 114
JSONB_UINT32 == 116
JSONB_UINT64 == 120
JSONB_FLOAT == 132
JSONB_DOUBLE == 136
\* "{:" and ":}"
JSONB_HEADER == <<123, 58>>
JSONB_TRAILER == <<58, 125>>
\* ' ', the first byte jsonbParse does not trim
SPACE == 32

(***************************************************************************)
(* Bytes and flat memory.                                                  *)
(***************************************************************************)
Byte == 0..255

RECURSIVE BitXor(_, _)
BitXor(a, b) ==
    IF a = 0 /\ b = 0 THEN 0
    ELSE (((a % 2) + (b % 2)) % 2) + (2 * BitXor(a \div 2, b \div 2))

\* the C operator ^ on two uint8_t values, tabulated once
XorTab == [a \in Byte |-> [b \in Byte |-> BitXor(a, b)]]

\* a faulty variant: the byte is stored as it is, the forbidden byte not
\* mixed in
XorOmitted(a, b) == a

Xor(a, b) == XorTab[a][b]

\* *p = v at index i of memory mem
Wr(mem, i, v) == IF i \in DOMAIN mem THEN [mem EXCEPT ![i] = v] ELSE (i :> v) @@ mem

\* the n bytes of mem from index a, as a sequence
Slice(mem, a, n) == [k \in 1..n |-> mem[a + k - 1]]

\* a memory of n bytes from index 0 that holds sequence s at its start; the
\* other bytes hold fill
MemOf(s, n, fill) == [i \in 0..(n - 1) |-> IF i < Len(s) THEN s[i + 1] ELSE fill]

\* memcpy(&mem[d], s, Len(s)) for a byte sequence s held outside mem
CopyIn(mem, d, s) == [i \in d..(d + Len(s) - 1) |-> s[i - d + 1]] @@ mem

(***************************************************************************)
(* jbCobsEncode.  st holds the locals: ptr, dst and code_ptr are indices   *)
(* into mem, length is what the while loop has left.  EncStep is one       *)
(* iteration; the loop is run in stretches of 32 iterations so that its    *)
(* evaluation never nests deeper than a stretch.                           *)
(***************************************************************************)
\* a faulty variant of the loop body: the code byte of a finished block is
\* stored without the forbidden byte mixed in
EncStepPlainCode(st, xor) ==
    LET ch == st.mem[st.ptr]
        nz == ch # 0
        mem1 == IF nz THEN Wr(st.mem, st.dst, XorTab[ch][xor]) ELSE st.mem
        dst1 == IF nz THEN st.dst + 1 ELSE st.dst
        code1 == IF nz THEN st.code + 1 ELSE st.code
    IN IF ch = 0 \/ code1 = 255
       THEN [mem |-> Wr(mem1, st.code_ptr, code1), ptr |-> st.ptr + 1,
             length |-> st.length - 1, dst |-> dst1 + 1, code |-> 1,
             code_ptr |-> dst1]
       ELSE [mem |-> mem1, ptr |-> st.ptr + 1, length |-> st.length - 1,
             dst |-> dst1, code |-> code1, code_ptr |-> st.code_ptr]

EncStep(st, xor) ==
    LET ch == st.mem[st.ptr]
        nz == ch # 0
        mem1 == IF nz THEN Wr(st.mem, st.dst, Xor(ch, xor)) ELSE st.mem
        dst1 == IF nz THEN st.dst + 1 ELSE st.dst
        code1 == IF nz THEN st.code + 1 ELSE st.code
    IN IF ch = 0 \/ code1 = 255
       THEN [mem |-> Wr(mem1, st.code_ptr, Xor(code1, xor)), ptr |-> st.ptr + 1,
             length |-> st.length - 1, dst |-> dst1 + 1, code |-> 1,
             code_ptr |-> dst1]
       ELSE [mem |-> mem1, ptr |-> st.ptr + 1, length |-> st.length - 1,
             dst |-> dst1, code |-> code1, code_ptr |-> st.code_ptr]

RECURSIVE EncRun(_, _, _)
EncRun(st, xor, k) ==
    IF k = 0 \/ st.length = 0 THEN st ELSE EncRun(EncStep(st, xor), xor, k - 1)

RECURSIVE EncLoop(_, _)
EncLoop(st, xor) ==
    IF st.length = 0 THEN st ELSE EncLoop(EncRun(st, xor, 32), xor)

\* a faulty variant: the returned length leaves out the first code byte
jbCobsEncodeShortLen(mem, ptr, length, xor, dst) ==
    LET r == EncLoop([mem |-> mem, ptr |-> ptr, length |-> length, dst |-> dst + 1,
                      code |-> 1, code_ptr |-> dst], xor)
    IN [mem |-> Wr(r.mem, r.code_ptr, Xor(r.code, xor)), len |-> r.dst - dst - 1]

jbCobsEncode(mem, ptr, length, xor, dst) ==
    LET r == EncLoop([mem |-> mem, ptr |-> ptr, length |-> length, dst |-> dst + 1,
                      code |-> 1, code_ptr |-> dst], xor)
    IN [mem |-> Wr(r.mem, r.code_ptr, Xor(r.code, xor)), len |-> r.dst - dst]

(***************************************************************************)
(* jbCobsDecode.  DecStep is one iteration of the for loop, copy-- at its  *)
(* end included; done is the break.                                        *)
(***************************************************************************)
DecStep(st, xor) ==
    IF st.copy # 0
    THEN [st EXCEPT !.mem = Wr(st.mem, st.dst, Xor(st.mem[st.ptr], xor)),
                    !.ptr = st.ptr + 1, !.dst = st.dst + 1, !.copy = st.copy - 1]
    ELSE LET mem1 == IF st.code # 255 THEN Wr(st.mem, st.dst, 0) ELSE st.mem
             dst1 == IF st.code # 255 THEN st.dst + 1 ELSE st.dst
             c == Xor(mem1[st.ptr], xor)
         IN IF c = 0
            THEN [st EXCEPT !.mem = mem1, !.dst = dst1, !.ptr = st.ptr + 1,
                            !.code = c, !.copy = c, !.done = TRUE]
            ELSE [st EXCEPT !.mem = mem1, !.dst = dst1, !.ptr = st.ptr + 1,
                            !.code = c, !.copy = c - 1]

DecOver(st) == st.done \/ st.ptr >= st.end

RECURSIVE DecRun(_, _, _)
DecRun(st, xor, k) ==
    IF k = 0 \/ DecOver(st) THEN st ELSE DecRun(DecStep(st, xor), xor, k - 1)

RECURSIVE DecLoop(_, _)
DecLoop(st, xor) ==
    IF DecOver(st) THEN st ELSE DecLoop(DecRun(st, xor, 32), xor)

\* a faulty variant: code starts at 0 instead of 0xFF, so the first code byte
\* is taken to close a block
jbCobsDecodeCodeZero(mem, ptr, length, xor, dst) ==
    LET r == DecLoop([mem |-> mem, ptr |-> ptr, end |-> ptr + length, dst |-> dst,
                      code |-> 0, copy |-> 0, done |-> FALSE], xor)
    IN [mem |-> r.mem, len |-> r.dst - dst]

jbCobsDecode(mem, ptr, length, xor, dst) ==
    LET r == DecLoop([mem |-> mem, ptr |-> ptr, end |-> ptr + length, dst |-> dst,
                      code |-> 255, copy |-> 0, done |-> FALSE], xor)
    IN [mem |-> r.mem, len |-> r.dst - dst]

(***************************************************************************)
(* uint32_t arithmetic.  A uint32_t value is held as the integer with the  *)
(* same 32-bit pattern read as two's complement, so a value of 2^31 or     *)
(* more is held as v - 2^32; sums and differences of the small operands    *)
(* met here are then those of the integers.                                *)
(***************************************************************************)
\* 2^32 = TwoTo32Div254 * 254 + TwoTo32Mod254
TwoTo32Div254 == 16909320
TwoTo32Mod254 == 16

\* a / 254 on uint32_t
Div254(a) ==
    IF a >= 0 THEN a \div 254
    ELSE TwoTo32Div254 + ((TwoTo32Mod254 + a) \div 254)

\* a > b on uint32_t
Gt32(a, b) == IF (a >= 0) = (b >= 0) THEN a > b ELSE a < 0

jbCobsGuaranteedFit(buflen) ==
    LET cobsOverhead == 1 + Div254(buflen) + 1
    IN IF Gt32(cobsOverhead, buflen) THEN 0 ELSE buflen - cobsOverhead

(***************************************************************************)
(* The formatter context and its append primitive.                         *)
(***************************************************************************)
\* largest buffer the grow callback is able to provide
MaxBufLen == 16

\* bufGrowFn as the callers of this library supply it: it fails, or it
\* reallocates the buffer growBytes larger, keeping the bytes it held
GrowBuf(mem, buflen, growBytes) ==
    [i \in (0..(buflen + growBytes - 1)) \cup DOMAIN mem |->
        IF i \in DOMAIN mem THEN mem[i] ELSE 0]

\* g: whether the grow callback, if called, succeeds
\* a faulty variant: the bytes are stored whenever overrun was clear on entry,
\* also by the append that sets it
jbAppendBytesLateCheck(c, opcode, bytes, g) ==
    LET buflen == Len(bytes)
        needed == IF opcode # JSONB_INVALID THEN buflen + 1 ELSE buflen
        short == c.bufused + needed > c.buflen
        grown == short /\ c.growFn /\ g /\ c.buflen + needed <= MaxBufLen
        c1 == IF ~short THEN c
              ELSE IF grown
                   THEN [c EXCEPT !.buf = GrowBuf(c.buf, c.buflen, needed),
                                  !.buflen = c.buflen + needed]
                   ELSE [c EXCEPT !.overrun = TRUE]
    IN IF c.overrun THEN c1
       ELSE LET m1 == IF opcode # JSONB_INVALID THEN Wr(c1.buf, c1.bufused, opcode)
                      ELSE c1.buf
                u1 == IF opcode # JSONB_INVALID THEN c1.bufused + 1 ELSE c1.bufused
            IN [c1 EXCEPT !.buf = CopyIn(m1, u1, bytes), !.bufused = u1 + buflen]

jbAppendBytes(c, opcode, bytes, g) ==
    LET buflen == Len(bytes)
        needed == IF opcode # JSONB_INVALID THEN buflen + 1 ELSE buflen
        short == c.bufused + needed > c.buflen
        grown == short /\ c.growFn /\ g /\ c.buflen + needed <= MaxBufLen
        c1 == IF ~short THEN c
              ELSE IF grown
                   THEN [c EXCEPT !.buf = GrowBuf(c.buf, c.buflen, needed),
                                  !.buflen = c.buflen + needed]
                   ELSE [c EXCEPT !.overrun = TRUE]
    IN IF c1.overrun THEN c1
       ELSE LET m1 == IF opcode # JSONB_INVALID
                      THEN Wr(c1.buf, c1.bufused, opcode) ELSE c1.buf
                u1 == IF opcode # JSONB_INVALID THEN c1.bufused + 1 ELSE c1.bufused
            IN [c1 EXCEPT !.buf = CopyIn(m1, u1, bytes), !.bufused = u1 + buflen]

jsonbFormatBegin(buf, buflen, bufGrow) ==
    [growFn |-> bufGrow, buf |-> buf, buflen |-> buflen, bufused |-> 0,
     overrun |-> FALSE, error |-> FALSE]

\* the value of v as n little-endian bytes
LeBytes(v, n) == [k \in 1..n |-> (v \div (256 ^ (k - 1))) % 256]

jsonbAddObjectBegin(c, g) == jbAppendBytes(c, JSONB_BEGIN_OBJECT, <<>>, g[1])

jsonbAddInt8(c, v, g) == jbAppendBytes(c, JSONB_INT8, LeBytes(v, 1), g[1])

jsonbAddInt32(c, v, g) == jbAppendBytes(c, JSONB_INT32, LeBytes(v, 4), g[1])

\* str is the string without its terminating NUL
jsonbAddString(c, str, g) == jbAppendBytes(c, JSONB_STRING, str \o <<0>>, g[1])

jsonbAddStringLen(c, str, g) ==
    jbAppendBytes(jbAppendBytes(c, JSONB_STRING, str, g[1]), JSONB_INVALID, <<0>>, g[2])

\* a faulty variant: the length is always written in four bytes
BinHeaderWidest(c, binLen, g) ==
    jbAppendBytes(c, JSONB_BIN32, LeBytes(binLen, 4), g[1])

\* the length prefix jsonbAddBin appends before the bytes
BinHeader(c, binLen, g) ==
    IF binLen < 256 THEN jbAppendBytes(c, JSONB_BIN8, LeBytes(binLen, 1), g[1])
    ELSE IF binLen < 65536 THEN jbAppendBytes(c, JSONB_BIN16, LeBytes(binLen, 2), g[1])
    ELSE IF binLen < 16777216 THEN jbAppendBytes(c, JSONB_BIN24, LeBytes(binLen, 3), g[1])
    ELSE jbAppendBytes(c, JSONB_BIN32, LeBytes(binLen, 4), g[1])

jsonbAddBin(c, bin, g) ==
    jbAppendBytes(BinHeader(c, Len(bin), g), JSONB_INVALID, bin, g[2])

jsonbAddItemToObject(c, itemName, g) ==
    jbAppendBytes(c, JSONB_ITEM, itemName \o <<0>>, g[1])

jsonbAddInt32ToObject(c, itemName, v, g) ==
    jsonbAddInt32(jsonbAddItemToObject(c, itemName, g), v, Tail(g))

\* the other appends.  A 64-bit argument v is given as its eight bytes, least
\* significant first; jsonbAddInt64 and jsonbAddUint64 take it as uint32_t,
\* its first four bytes, and jbAppend64 copies eight bytes from where that
\* parameter lies: the four of v and after, the four bytes that follow the
\* parameter in memory, which nothing determines
jsonbAddObjectEnd(c, g) == jbAppendBytes(c, JSONB_END_OBJECT, <<>>, g[1])

jsonbAddArrayBegin(c, g) == jbAppendBytes(c, JSONB_BEGIN_ARRAY, <<>>, g[1])

jsonbAddArrayEnd(c, g) == jbAppendBytes(c, JSONB_END_ARRAY, <<>>, g[1])

jsonbAddInt16(c, v, g) == jbAppendBytes(c, JSONB_INT16, LeBytes(v, 2), g[1])

jsonbAddInt64(c, v, after, g) ==
    jbAppendBytes(c, JSONB_INT64, SubSeq(v, 1, 4) \o after, g[1])

jsonbAddUint8(c, v, g) == jbAppendBytes(c, JSONB_UINT8, LeBytes(v, 1), g[1])

jsonbAddUint16(c, v, g) == jbAppendBytes(c, JSONB_UINT16, LeBytes(v, 2), g[1])

jsonbAddUint32(c, v, g) == jbAppendBytes(c, JSONB_UINT32, LeBytes(v, 4), g[1])

jsonbAddUint64(c, v, after, g) ==
    jbAppendBytes(c, JSONB_UINT64, SubSeq(v, 1, 4) \o after, g[1])

jsonbAddNull(c, g) == jbAppendBytes(c, JSONB_NULL, <<>>, g[1])

jsonbAddTrue(c, g) == jbAppendBytes(c, JSONB_TRUE, <<>>, g[1])

jsonbAddFalse(c, g) == jbAppendBytes(c, JSONB_FALSE, <<>>, g[1])

\* v is the value as it lies in memory: sizeof(float) == 4 and
\* sizeof(double) == 8, the other branches being those of other hosts
jsonbAddFloat(c, v, g) == jbAppendBytes(c, JSONB_FLOAT, SubSeq(v, 1, 4), g[1])

jsonbAddDouble(c, v, g) == jbAppendBytes(c, JSONB_DOUBLE, SubSeq(v, 1, 8), g[1])

jsonbAddInt8ToObject(c, itemName, v, g) ==
    jsonbAddInt8(jsonbAddItemToObject(c, itemName, g), v, Tail(g))

jsonbAddInt16ToObject(c, itemName, v, g) ==
    jsonbAddInt16(jsonbAddItemToObject(c, itemName, g), v, Tail(g))

jsonbAddInt64ToObject(c, itemName, v, after, g) ==
    jsonbAddInt64(jsonbAddItemToObject(c, itemName, g), v, after, Tail(g))

jsonbAddUint8ToObject(c, itemName, v, g) ==
    jsonbAddUint8(jsonbAddItemToObject(c, itemName, g), v, Tail(g))

jsonbAddUint16ToObject(c, itemName, v, g) ==
    jsonbAddUint16(jsonbAddItemToObject(c, itemName, g), v, Tail(g))

jsonbAddUint32ToObject(c, itemName, v, g) ==
    jsonbAddUint32(jsonbAddItemToObject(c, itemName, g), v, Tail(g))

jsonbAddUint64ToObject(c, itemName, v, after, g) ==
    jsonbAddUint64(jsonbAddItemToObject(c, itemName, g), v, after, Tail(g))

(***************************************************************************)
(* jsonbFormatEnd.  The result is the context and whether the frame was    *)
(* written (the path that reaches the end of the function).                *)
(***************************************************************************)
\* memmove(&mem[d], &mem[s], n)
MemMove(mem, d, s, n) == CopyIn(mem, d, Slice(mem, s, n))

\* sizeof(JSONB_HEADER)-1 + sizeof(JSONB_TRAILER)-1 + 1
SigLen == Len(JSONB_HEADER) + Len(JSONB_TRAILER) + 1

\* a faulty variant: the payload is encoded from where it lies
MovedPayloadInPlace(maxExpansionByEncoding, siglen) == 0

\* where jsonbFormatEnd moves the payload to, given the worst-case expansion
MovedPayload(maxExpansionByEncoding, siglen) == maxExpansionByEncoding + siglen

jsonbFormatEnd(c) ==
    IF c.overrun \/ c.error THEN [ctx |-> c, framed |-> FALSE]
    ELSE LET siglen == SigLen
             buflenWithoutSig == c.buflen - siglen
             maxExpansionByEncoding ==
                 buflenWithoutSig - jbCobsGuaranteedFit(buflenWithoutSig)
         IN IF Gt32(c.bufused + maxExpansionByEncoding, buflenWithoutSig)
            THEN [ctx |-> c, framed |-> FALSE]
            ELSE LET movedPayload == MovedPayload(maxExpansionByEncoding, siglen)
                     m1 == MemMove(c.buf, movedPayload, 0, c.bufused)
                     m2 == CopyIn(m1, 0, JSONB_HEADER)
                     e == jbCobsEncode(m2, movedPayload, c.bufused, JSONB_TERMINATOR,
                                       Len(JSONB_HEADER))
                     m3 == CopyIn(e.mem, Len(JSONB_HEADER) + e.len, JSONB_TRAILER)
                     used == Len(JSONB_HEADER) + e.len + Len(JSONB_TRAILER)
                 IN [ctx |-> [c EXCEPT !.buf = Wr(m3, used, JSONB_TERMINATOR),
                                       !.bufused = used + 1],
                     framed |-> TRUE]

(***************************************************************************)
(* jsonbParse.  mem is the memory the input lies in, buf the index of its  *)
(* first byte; c is the parser's context, where buf is an index into mem.  *)
(***************************************************************************)
\* a faulty variant: nothing is trimmed off the end
TrimBackOmitted(mem, buf, buflen) == buflen

\* while (buflen > 0 && buf[0] < ' ') { buf++; buflen--; } : n is the count of
\* bytes the loop steps over, the bytes before the first one >= ' '
TrimFront(mem, buf, buflen) ==
    LET n == CHOOSE m \in 0..buflen :
                 /\ \A k \in 0..(m - 1) : mem[buf + k] < SPACE
                 /\ (m < buflen => mem[buf + m] >= SPACE)
    IN [buf |-> buf + n, buflen |-> buflen - n]

\* while (buflen > 0 && buf[buflen-1] < ' ') buflen--; : the length the loop
\* leaves, that up to the last byte >= ' '
TrimBack(mem, buf, buflen) ==
    CHOOSE n \in 0..buflen :
        /\ \A k \in n..(buflen - 1) : mem[buf + k] < SPACE
        /\ (n > 0 => mem[buf + n - 1] >= SPACE)

\* a faulty variant: the trailer is looked for without asking whether the
\* bytes after the header have room for it
HasTrailerNoLength(mem, buf, buflen) ==
    Slice(mem, buf + buflen - Len(JSONB_TRAILER), Len(JSONB_TRAILER)) = JSONB_TRAILER

\* the test on the header, and the test on the trailer made once buf and
\* buflen have been moved past the header
HasHeader(mem, buf, buflen) ==
    buflen >= Len(JSONB_HEADER) /\ Slice(mem, buf, Len(JSONB_HEADER)) = JSONB_HEADER

HasTrailer(mem, buf, buflen) ==
    /\ buflen >= Len(JSONB_TRAILER)
    /\ Slice(mem, buf + buflen - Len(JSONB_TRAILER), Len(JSONB_TRAILER)) = JSONB_TRAILER

jsonbParse(c, mem, buf0, buflen0) ==
    LET f == TrimFront(mem, buf0, buflen0)
        buf1 == f.buf
        buflen1 == TrimBack(mem, buf1, f.buflen)
        hl == Len(JSONB_HEADER)
        tl == Len(JSONB_TRAILER)
        fail == [ok |-> FALSE, ctx |-> c, mem |-> mem]
    IN IF buflen1 = 0 THEN fail
       ELSE IF ~HasHeader(mem, buf1, buflen1) THEN fail
       ELSE LET buf2 == buf1 + hl
                buflen2 == buflen1 - hl
            IN IF ~HasTrailer(mem, buf2, buflen2)
               THEN fail
               ELSE LET buflen3 == buflen2 - tl
                        d == jbCobsDecode(mem, buf2, buflen3, JSONB_TERMINATOR, buf2)
                    IN [ok |-> TRUE,
                        ctx |-> [c EXCEPT !.buflen = d.len, !.buf = buf2, !.bufused = 0],
                        mem |-> d.mem]

(***************************************************************************)
(* The enumerator.  c is the parser's context with its opcode field, mem   *)
(* the memory c.buf is an index into.  A read at an index mem does not     *)
(* hold (outside every object the caller owns) gives oob, a byte the       *)
(* caller of the model chooses.  NULL is the null pointer, an index no byte *)
(* has; Unset marks an output parameter the call did not store to.         *)
(***************************************************************************)
NULL == 0 - 1

Unset == 0 - 2

Rd(mem, i, oob) == IF i \in DOMAIN mem THEN mem[i] ELSE oob

\* a + b and the little-endian value of four bytes in uint32_t, a value of
\* 2^31 or more being held as the negative number 2^32 less
Add32(a, b) ==
    IF a >= 0 /\ b >= 0 /\ a > 2147483647 - b
    THEN (a - 2147483647 - 1) + (b - 2147483647 - 1)
    ELSE a + b

U32(b0, b1, b2, b3) ==
    b0 + (256 * b1) + (65536 * b2) + (16777216 * (IF b3 >= 128 THEN b3 - 256 ELSE b3))

\* a faulty variant: the scan for the NUL does not stop at the end of the
\* buffer
ScanNulPastEnd(mem, from, n, oob) ==
    LET nul == {i \in 0..(n + 1) : Rd(mem, from + i, oob) = 0}
    IN IF nul = {} THEN [nullTerminated |-> FALSE, len |-> n]
       ELSE [nullTerminated |-> TRUE,
             len |-> (CHOOSE i \in nul : \A j \in nul : i <= j) + 1]

\* the loop over i < buflen - bufused that counts bytes up to and including
\* the first NUL: n is buflen - bufused in uint32_t
ScanNul(mem, from, n, oob) ==
    LET top == IF DOMAIN mem = {} THEN 0
               ELSE CHOOSE i \in DOMAIN mem : \A j \in DOMAIN mem : j <= i
        lim == IF n < 0 THEN (IF top + 2 > from THEN top + 2 - from ELSE 1) ELSE n
        nul == {i \in 0..(lim - 1) : Rd(mem, from + i, oob) = 0}
    IN IF nul = {} THEN [nullTerminated |-> FALSE, len |-> lim]
       ELSE [nullTerminated |-> TRUE,
             len |-> (CHOOSE i \in nul : \A j \in nul : i <= j) + 1]

\* a faulty variant: the cursor is left where it is
jsonbEnumCursorKept(c) == [c EXCEPT !.opcode = JSONB_INVALID]

jsonbEnum(c) == [c EXCEPT !.bufused = 0, !.opcode = JSONB_INVALID]

\* a faulty variant: JSONB_NULL is taken to have a byte of value
ValueLenOfNullOne(opcode) ==
    CASE opcode \in {JSONB_NULL, JSONB_INT8, JSONB_UINT8} -> 1
      [] opcode \in {JSONB_INT16, JSONB_UINT16} -> 2
      [] opcode \in {JSONB_INT32, JSONB_UINT32} -> 4
      [] opcode \in {JSONB_INT64, JSONB_UINT64, JSONB_FLOAT} -> 8
      [] opcode = JSONB_DOUBLE -> 16
      [] OTHER -> 0

\* len as the switch sets it for the opcodes of fixed length
ValueLen(opcode) ==
    CASE opcode \in {JSONB_INT8, JSONB_UINT8} -> 1
      [] opcode \in {JSONB_INT16, JSONB_UINT16} -> 2
      [] opcode \in {JSONB_INT32, JSONB_UINT32} -> 4
      [] opcode \in {JSONB_INT64, JSONB_UINT64, JSONB_FLOAT} -> 8
      [] opcode = JSONB_DOUBLE -> 16
      [] OTHER -> 0

\* the opcodes the switch has a case for
ValueOpcodes ==
    {JSONB_BEGIN_OBJECT, JSONB_END_OBJECT, JSONB_BEGIN_ARRAY, JSONB_END_ARRAY,
     JSONB_NULL, JSONB_TRUE, JSONB_FALSE, JSONB_STRING,
     JSONB_BIN8, JSONB_BIN16, JSONB_BIN24, JSONB_BIN32,
     JSONB_INT8, JSONB_INT16, JSONB_INT32, JSONB_INT64,
     JSONB_UINT8, JSONB_UINT16, JSONB_UINT32, JSONB_UINT64,
     JSONB_FLOAT, JSONB_DOUBLE}

\* the switch on ctx->opcode and what follows it; c has the opcode read and
\* bufused after it, item and opcode are what was stored to the outputs
EnumValue(c, mem, first, item, oob) ==
    LET at == c.buf + c.bufused
        b0 == Rd(mem, at, oob)
        b1 == Rd(mem, at + 1, oob)
        b2 == Rd(mem, at + 2, oob)
        b3 == Rd(mem, at + 3, oob)
        fail == [ok |-> FALSE, ctx |-> c, first |-> first, opcode |-> c.opcode,
                 item |-> item, v |-> Unset]
        done(used, len) ==
            [ok |-> TRUE, ctx |-> [c EXCEPT !.bufused = Add32(used, len)],
             first |-> first, opcode |-> c.opcode, item |-> item,
             v |-> c.buf + used]
    IN IF c.opcode \notin ValueOpcodes THEN fail
       ELSE IF c.opcode = JSONB_STRING
       THEN LET s == ScanNul(mem, at, c.buflen - c.bufused, oob)
            IN IF ~s.nullTerminated THEN fail ELSE done(c.bufused, s.len)
       ELSE IF c.opcode = JSONB_BIN8 THEN done(c.bufused + 1, b0)
       ELSE IF c.opcode = JSONB_BIN16 THEN done(c.bufused + 2, U32(b0, b1, 0, 0))
       ELSE IF c.opcode = JSONB_BIN24 THEN done(c.bufused + 3, U32(b0, b1, b2, 0))
       ELSE IF c.opcode = JSONB_BIN32 THEN done(c.bufused + 4, U32(b0, b1, b2, b3))
       ELSE done(c.bufused, ValueLen(c.opcode))

jsonbEnumNext(c, mem, oob) ==
    IF c.bufused >= c.buflen
    THEN [ok |-> FALSE, ctx |-> c, first |-> Unset, opcode |-> Unset,
          item |-> Unset, v |-> Unset]
    ELSE LET first == c.opcode \in {JSONB_BEGIN_OBJECT, JSONB_BEGIN_ARRAY, JSONB_INVALID}
             c1 == [c EXCEPT !.opcode = Rd(mem, c.buf + c.bufused, oob),
                             !.bufused = c.bufused + 1]
         IN IF c1.opcode # JSONB_ITEM THEN EnumValue(c1, mem, first, NULL, oob)
            ELSE LET item == c1.buf + c1.bufused
                     s == ScanNul(mem, item, c1.buflen - c1.bufused, oob)
                 IN IF ~s.nullTerminated
                    THEN [ok |-> FALSE, ctx |-> c1, first |-> first,
                          opcode |-> c1.opcode, item |-> item, v |-> Unset]
                    ELSE LET used == c1.bufused + s.len
                             c2 == [c1 EXCEPT !.opcode = Rd(mem, c1.buf + used, oob),
                                               !.bufused = used + 1]
                         IN EnumValue(c2, mem, first, item, oob)

\* the C string at index p: the bytes before the first NUL
RECURSIVE CStr(_, _, _)
CStr(mem, p, oob) ==
    IF Rd(mem, p, oob) = 0 THEN <<>>
    ELSE <<Rd(mem, p, oob)>> \o CStr(mem, p + 1, oob)

\* l1 == l2 && memcmp(itemName, key, l1) == 0
NameMatches(mem, key, itemName, oob) == CStr(mem, key, oob) = itemName

\* nesting after the element e of the enumeration
Nesting(e, nesting) ==
    IF ~e.ok THEN nesting
    ELSE IF e.opcode = JSONB_BEGIN_OBJECT THEN nesting + 1
    ELSE IF e.opcode = JSONB_END_OBJECT THEN nesting - 1
    ELSE nesting

\* the while loop of jsonbGetObjectItem: ItemLoop is one jsonbEnumNext and
\* ItemBody the body of the loop for the element e it gave
RECURSIVE ItemLoop(_, _, _, _, _)
ItemBody(e, mem, itemName, nesting, oob) ==
    IF ~e.ok \/ nesting = 0
    THEN [ok |-> FALSE, ctx |-> e.ctx, itemType |-> Unset, itemValue |-> Unset]
    ELSE IF nesting # 1 THEN ItemLoop(e.ctx, mem, itemName, nesting, oob)
    ELSE IF e.item # NULL /\ NameMatches(mem, e.item, itemName, oob)
         THEN [ok |-> TRUE, ctx |-> e.ctx, itemType |-> e.opcode, itemValue |-> e.v]
         ELSE ItemLoop(e.ctx, mem, itemName, nesting, oob)

ItemElement(e, mem, itemName, nesting, oob) ==
    ItemBody(e, mem, itemName, Nesting(e, nesting), oob)

ItemLoop(c, mem, itemName, nesting, oob) ==
    ItemElement(jsonbEnumNext(c, mem, oob), mem, itemName, nesting, oob)

jsonbGetObjectItem(c, mem, itemName, oob) ==
    ItemLoop(jsonbEnum(c), mem, itemName, 0, oob)

(***************************************************************************)
(* The getters.  A 64-bit result is given as its eight bytes, least        *)
(* significant first; memcpy into a local of the item's type reads the     *)
(* bytes in the order jbAppendBytes stored them (the same host on both     *)
(* sides).  The conversion of a float or double to an integer is left as   *)
(* the term naming it.                                                     *)
(***************************************************************************)
RdBytes(mem, p, n, oob) == [k \in 1..n |-> Rd(mem, p + k - 1, oob)]

\* a faulty variant: the signed types are widened like the unsigned ones
ZeroExtendAlways(b) == b \o [k \in 1..(8 - Len(b)) |-> 0]

\* (int64_t) or (uint64_t) of a signed value of Len(b) bytes: sign extension
SignExtend(b) ==
    b \o [k \in 1..(8 - Len(b)) |-> IF b[Len(b)] >= 128 THEN 255 ELSE 0]

\* (int64_t) or (uint64_t) of an unsigned value of Len(b) bytes
ZeroExtend(b) == b \o [k \in 1..(8 - Len(b)) |-> 0]

Zero64 == [k \in 1..8 |-> 0]

\* the switch of jsonbGetInt64 and jsonbGetUint64 on the item's type; to is
\* the type of the cast
GetInteger(itemType, mem, itemValue, to, oob) ==
    CASE itemType = JSONB_FLOAT ->
             [cast |-> to, from |-> "float", bytes |-> RdBytes(mem, itemValue, 4, oob)]
      [] itemType = JSONB_DOUBLE ->
             [cast |-> to, from |-> "double", bytes |-> RdBytes(mem, itemValue, 8, oob)]
      [] itemType = JSONB_UINT8 -> ZeroExtend(RdBytes(mem, itemValue, 1, oob))
      [] itemType = JSONB_UINT16 -> ZeroExtend(RdBytes(mem, itemValue, 2, oob))
      [] itemType = JSONB_UINT32 -> ZeroExtend(RdBytes(mem, itemValue, 4, oob))
      [] itemType = JSONB_UINT64 -> RdBytes(mem, itemValue, 8, oob)
      [] itemType = JSONB_INT8 -> SignExtend(RdBytes(mem, itemValue, 1, oob))
      [] itemType = JSONB_INT16 -> SignExtend(RdBytes(mem, itemValue, 2, oob))
      [] itemType = JSONB_INT32 -> SignExtend(RdBytes(mem, itemValue, 4, oob))
      [] itemType = JSONB_INT64 -> RdBytes(mem, itemValue, 8, oob)
      [] OTHER -> Zero64

\* the getters after their call of jsonbGetObjectItem, which gave r
jsonbGetInt64(r, mem, oob) ==
    [ctx |-> r.ctx,
     ret |-> IF ~r.ok THEN Zero64
             ELSE GetInteger(r.itemType, mem, r.itemValue, "int64_t", oob)]

jsonbGetUint64(r, mem, oob) ==
    [ctx |-> r.ctx,
     ret |-> IF ~r.ok THEN Zero64
             ELSE GetInteger(r.itemType, mem, r.itemValue, "uint64_t", oob)]

\* a faulty variant: a value that int32_t does not hold becomes INT32_MAX
Narrow32Saturating(v, real, to) ==
    IF real THEN [cast |-> to, of |-> v]
    ELSE IF SubSeq(v, 5, 8) = SubSeq(SignExtend(SubSeq(v, 1, 4)), 5, 8) THEN SubSeq(v, 1, 4)
    ELSE <<255, 255, 255, 127>>

\* (int32_t) and (uint32_t) of a 64-bit integer: its low four bytes; real says
\* that v is the conversion of a float or a double, which is left as it is
Narrow32(v, real, to) == IF real THEN [cast |-> to, of |-> v] ELSE SubSeq(v, 1, 4)

jsonbGetInt32(r, mem, oob) ==
    [ctx |-> r.ctx,
     ret |-> Narrow32(jsonbGetInt64(r, mem, oob).ret,
                      r.ok /\ r.itemType \in {JSONB_FLOAT, JSONB_DOUBLE}, "int32_t")]

jsonbGetUint32(r, mem, oob) ==
    [ctx |-> r.ctx,
     ret |-> Narrow32(jsonbGetUint64(r, mem, oob).ret,
                      r.ok /\ r.itemType \in {JSONB_FLOAT, JSONB_DOUBLE}, "uint32_t")]

jsonbGetBool(r) == [ctx |-> r.ctx, ret |-> r.ok /\ r.itemType = JSONB_TRUE]

\* the result is the string the returned pointer points to
jsonbGetString(r, mem, oob) ==
    [ctx |-> r.ctx,
     ret |-> IF r.ok /\ r.itemType = JSONB_STRING THEN CStr(mem, r.itemValue, oob)
             ELSE <<>>]

(***************************************************************************)
(* The COBS primitives on their own: an input s and a forbidden byte x are *)
(* chosen, s is encoded into a separate destination, and the encoding is   *)
(* decoded, in place (dst = ptr, as jsonbParse does) or elsewhere.         *)
(***************************************************************************)
RECURSIVE SeqsUpTo(_, _)
SeqsUpTo(S, n) ==
    IF n = 0 THEN {<<>>}
    ELSE LET T == SeqsUpTo(S, n - 1)
         IN T \cup {Append(t, b) : t \in {u \in T : Len(u) = n - 1}, b \in S}

Run(b, n) == [k \in 1..n |-> b]

\* bytes of the exhaustive inputs: zero, one, the terminator, 0xFF
CobsBytes == {0, 1, JSONB_TERMINATOR, 255}

\* run lengths around the 254-byte block of the encoding
RunLens == {253, 254, 255, 508}

CobsEnds == {<<>>, <<0>>, <<7>>}

CobsInputs ==
    SeqsUpTo(CobsBytes, MaxLen)
    \cup {p \o Run(7, n) \o q : p \in CobsEnds, q \in CobsEnds, n \in RunLens}

\* the forbidden bytes tried on the long inputs
LongXors == {0, JSONB_TERMINATOR, 7, 255}

\* the destination the caller hands to jbCobsEncode for n input bytes
CobsRoom(n) == (2 * n) + 1

CobsInit ==
    /\ cobs \in {[pc |-> "init", s |-> s, x |-> x, enc |-> <<>>, dec |-> <<>>,
                  inplace |-> FALSE] :
                    s \in CobsInputs,
                    x \in Byte}
    /\ (Len(cobs.s) > MaxLen => cobs.x \in LongXors)

CobsEncode ==
    /\ cobs.pc = "init"
    /\ LET n == Len(cobs.s)
           r == jbCobsEncode(MemOf(cobs.s, n + CobsRoom(n), cobs.x), 0, n, cobs.x, n)
       IN cobs' = [cobs EXCEPT !.pc = "encoded", !.enc = Slice(r.mem, n, r.len)]
    /\ UNCHANGED <<ctx, last, par, trap>>

CobsDecode ==
    /\ cobs.pc = "encoded"
    /\ \E inplace \in BOOLEAN :
         LET n == Len(cobs.enc)
             d == IF inplace THEN 0 ELSE n
             r == jbCobsDecode(MemOf(cobs.enc, n + d, cobs.x), 0, n, cobs.x, d)
         IN cobs' = [cobs EXCEPT !.pc = "decoded", !.dec = Slice(r.mem, d, r.len),
                                 !.inplace = inplace]
    /\ UNCHANGED <<ctx, last, par, trap>>

\* the variables of the other components, at rest
Idle == [op |-> "none"]

InitCobs ==
    /\ CobsInit
    /\ ctx = Idle /\ last = Idle /\ par = Idle /\ trap = FALSE

NextCobs == CobsEncode \/ CobsDecode

SpecCobs == InitCobs /\ [][NextCobs]_vars

(***************************************************************************)
(* The formatter, the framer and the parser of the frames it emits.        *)
(*   ctx   the formatter's jsonbContext; buf is the memory at ctx->buf     *)
(*   last  the last formatter call: its name, whether it wrote a frame,    *)
(*         the raw payload it was given to frame, the number of calls      *)
(*         since jsonbFormatBegin, and mid, the context as the call's last *)
(*         jbAppendBytes found it (for jsonbFormatEnd, as it found it)     *)
(*   par   the receiver: the last jsonbParse, its result, context and      *)
(*         memory                                                          *)
(*   trap  a store outside the caller's buffer stopped the program (the    *)
(*         other outcome of such a store is that it lands, as it does in   *)
(*         flat memory)                                                    *)
(***************************************************************************)
\* formatter calls made on one buffer before the next jsonbFormatBegin
MaxOps == 3

\* buffer sizes handed to jsonbFormatBegin: none, less than the signature,
\* the signature with and without its terminator, a few payload bytes, and
\* one that holds more than one 254-byte COBS block
BufLens == {0, 4, 5, 6, 8, 12, 270}

\* outcomes of the grow callback for the (at most three) appends of one call
GrowOutcomes == {<<a, b, b>> : a \in BOOLEAN, b \in BOOLEAN}

NoGrow == <<FALSE, FALSE, FALSE>>

\* values, strings and binaries the calls are made with
Int8Values == {0, JSONB_TERMINATOR}
Strings == {<<104, 105>>}
Bins == {<<JSONB_TERMINATOR, 0>>, Run(7, 254)}

\* the indices an operation stored to outside the caller's buffer
OobStores(c, c2) ==
    {i \in DOMAIN c2.buf :
        i >= c2.buflen /\ (i \notin DOMAIN c.buf \/ c.buf[i] # c2.buf[i])}

\* the raw contents buf[0..bufused)
Used(c) == Slice(c.buf, 0, c.bufused)

ParCtx0 == [buf |-> 0, buflen |-> 0, bufused |-> 0]

\* the contexts jsonbFormatBegin leaves, over a buffer of zeros
Begun ==
    {jsonbFormatBegin(MemOf(<<>>, buflen, 0), buflen, grow) :
        buflen \in BufLens, grow \in BOOLEAN}

LastBegin ==
    [op |-> "FormatBegin", framed |-> FALSE, payload |-> <<>>, n |-> 0, mid |-> Idle]

Init ==
    /\ ctx \in Begun
    /\ last = LastBegin
    /\ par = Idle
    /\ trap = FALSE
    /\ cobs = Idle

\* a formatter call that takes ctx to c2
Call(name, mid, c2, framed, payload) ==
    /\ ~trap
    /\ last.n < MaxOps
    /\ \/ /\ ctx' = c2
          /\ last' = [op |-> name, framed |-> framed, payload |-> payload,
                      n |-> last.n + 1, mid |-> mid]
          /\ par' = Idle
          /\ UNCHANGED <<trap, cobs>>
       \/ /\ OobStores(ctx, c2) # {}
          /\ trap' = TRUE
          /\ UNCHANGED <<ctx, last, par, cobs>>

\* the outcomes the grow callback of ctx can have
Grows == IF ctx.growFn THEN GrowOutcomes ELSE {NoGrow}

FormatBegin ==
    /\ ~trap
    /\ ctx' \in Begun
    /\ last' = LastBegin
    /\ par' = Idle
    /\ UNCHANGED <<trap, cobs>>

AddObjectBegin ==
    \E g \in Grows : Call("AddObjectBegin", ctx, jsonbAddObjectBegin(ctx, g), FALSE, <<>>)

AddInt8 ==
    \E g \in Grows, v \in Int8Values :
        Call("AddInt8", ctx, jsonbAddInt8(ctx, v, g), FALSE, <<>>)

AddString ==
    \E g \in Grows, str \in Strings :
        Call("AddString", ctx, jsonbAddString(ctx, str, g), FALSE, <<>>)

AddStringLen ==
    \E g \in Grows, str \in Strings :
        Call("AddStringLen", jbAppendBytes(ctx, JSONB_STRING, str, g[1]),
             jsonbAddStringLen(ctx, str, g), FALSE, <<>>)

AddBin ==
    \E g \in Grows, bin \in Bins :
        Call("AddBin", BinHeader(ctx, Len(bin), g), jsonbAddBin(ctx, bin, g), FALSE, <<>>)

AddInt32ToObject ==
    \E g \in Grows :
        Call("AddInt32ToObject", jsonbAddItemToObject(ctx, <<110>>, g),
             jsonbAddInt32ToObject(ctx, <<110>>, JSONB_TERMINATOR, g), FALSE, <<>>)

FormatEnd ==
    LET r == jsonbFormatEnd(ctx)
    IN Call("FormatEnd", ctx, r.ctx, r.framed, Used(ctx))

\* the receiver parses a copy of what jsonbFormatEnd left in buf[0..bufused)
ParseFrame ==
    /\ ~trap
    /\ last.op = "FormatEnd"
    /\ par = Idle
    /\ LET input == Used(ctx)
           r == jsonbParse(ParCtx0, MemOf(input, Len(input), 0), 0, Len(input))
       IN par' = [op |-> "ParseFrame", ok |-> r.ok, ctx |-> r.ctx, mem |-> r.mem,
                  input |-> input]
    /\ UNCHANGED <<ctx, last, trap, cobs>>

Next ==
    \/ FormatBegin
    \/ AddObjectBegin
    \/ AddInt8
    \/ AddString
    \/ AddStringLen
    \/ AddBin
    \/ AddInt32ToObject
    \/ FormatEnd
    \/ ParseFrame

Spec == Init /\ [][Next]_vars

(***************************************************************************)
(* The parser on inputs of its own: a header or something like it, a body, *)
(* a trailer or something like it, with bytes before and after.  par holds *)
(* the input, the context the caller passes (fresh, or left by an earlier  *)
(* use), and after jsonbParse its result, the context and the memory.      *)
(* Reparse hands jsonbParse the original bytes of an accepted input again, *)
(* with control bytes put before and after them.                           *)
(***************************************************************************)
\* longest body between header and trailer
MaxBody == 2

\* bytes < 0x20 around a frame
CtlSeqs == {<<>>, <<JSONB_TERMINATOR>>, <<13, JSONB_TERMINATOR>>, <<0, 31>>}

\* what the inputs have before and after: control bytes, or a space, which is
\* not one
Edges == {<<>>, <<JSONB_TERMINATOR>>, <<13, JSONB_TERMINATOR>>, <<SPACE>>}

Heads == {<<>>, <<123>>, JSONB_HEADER, <<58, 123>>}

Trails == {<<>>, <<125>>, JSONB_TRAILER, <<58>>, <<125, 58>>}

\* body bytes: the codes 1 and 2 and the data byte 'a' as encoded with the
\* terminator, the terminator itself, and ':'
BodyBytes == {11, 8, 107, JSONB_TERMINATOR, 58}

ParseInputs ==
    {pre \o h \o b \o t \o post :
        pre \in Edges, h \in Heads, b \in SeqsUpTo(BodyBytes, MaxBody),
        t \in Trails, post \in Edges}

ParCtxs == {ParCtx0, [buf |-> 1, buflen |-> 2, bufused |-> 1]}

InitParse ==
    /\ par \in {[op |-> "input", input |-> s, ctx0 |-> c] :
                    s \in ParseInputs, c \in ParCtxs}
    /\ ctx = Idle /\ last = Idle /\ cobs = Idle /\ trap = FALSE

Parse ==
    /\ par.op = "input"
    /\ LET n == Len(par.input)
           r == jsonbParse(par.ctx0, MemOf(par.input, n, 0), 0, n)
       IN par' = [op |-> "Parse", input |-> par.input, ctx0 |-> par.ctx0,
                  ok |-> r.ok, ctx |-> r.ctx, mem |-> r.mem]
    /\ UNCHANGED <<ctx, last, cobs, trap>>

Reparse ==
    /\ par.op = "Parse"
    /\ par.ok
    /\ \E pre \in CtlSeqs, post \in CtlSeqs :
         LET s == pre \o par.input \o post
             r == jsonbParse(par.ctx0, MemOf(s, Len(s), 0), 0, Len(s))
         IN par' = [op |-> "Reparse", input |-> par.input, ctx0 |-> par.ctx0,
                    ok |-> par.ok, ctx |-> par.ctx, mem |-> par.mem,
                    pre |-> pre, post |-> post,
                    ok2 |-> r.ok, ctx2 |-> r.ctx, mem2 |-> r.mem]
    /\ UNCHANGED <<ctx, last, cobs, trap>>

NextParse == Parse \/ Reparse

SpecParse == InitParse /\ [][NextParse]_vars

(***************************************************************************)
(* A sender and a receiver.  The sender makes the formatter calls of a     *)
(* document, one call a step, in a buffer with no grow callback, and ends  *)
(* with jsonbFormatEnd; the receiver parses a copy of the frame and then   *)
(* enumerates and looks items up.                                          *)
(*   ctx   the formatter's context                                         *)
(*   last  the sender: the document (its calls), the calls still to make   *)
(*         and the name of the last one made                               *)
(*   par   the receiver: its context, its memory, the last call with its   *)
(*         argument and result, whether the call before it was the same, *)
(*         the last call of a function other than jsonbEnumNext and the    *)
(*         opcodes jsonbEnumNext has given since                           *)
(* A call is [f, name, v]: the function, the item name (empty when the     *)
(* function takes none) and the value.                                     *)
(***************************************************************************)
\* the sender's buffer
DocBufLen == 96

FnV(f, name, v) == [f |-> f, name |-> name, v |-> v]

Fn(f) == FnV(f, <<>>, 0)

\* the names "a", "ab", "b", "o", "c" and, in no document, "x"
NameA == <<97>>
NameAB == <<97, 98>>
NameB == <<98>>
NameO == <<111>>
NameC == <<99>>
NameX == <<120>>

\* the names of the items of the numeric documents, by opcode
NumName(opcode) == <<110, opcode>>

\* values at and around the ends of each width, by the function that writes
\* them; those of 32 unsigned bits are held as uint32_t is held throughout
NumValues ==
    [Int8ToObject |-> <<0 - 128, 0 - 1, 0, 10, 127>>,
     Int16ToObject |-> <<0 - 32768, 0 - 1, 0, 2570, 32767>>,
     Int32ToObject |-> <<(0 - 2147483647) - 1, 0 - 1, 0, 168430090, 2147483647>>,
     Uint8ToObject |-> <<255, 128, 0, 10, 127>>,
     Uint16ToObject |-> <<65535, 32768, 0, 2570, 32767>>,
     Uint32ToObject |-> <<0 - 1, (0 - 2147483647) - 1, 0, 168430090, 2147483647>>]

\* 64-bit arguments: -1, 1, 2^32 and 2^63
Int64s ==
    {[k \in 1..8 |-> 255], <<1, 0, 0, 0, 0, 0, 0, 0>>, <<0, 0, 0, 0, 1, 0, 0, 0>>,
     <<0, 0, 0, 0, 0, 0, 0, 128>>}

\* what may lie after the uint32_t parameter of jsonbAddInt64
Afters == {<<0, 0, 0, 0>>, <<255, 255, 255, 255>>, <<1, 0, 0, 0>>}

Obj(items) == <<Fn("ObjectBegin")>> \o items \o <<Fn("ObjectEnd")>>

NumDoc(j) ==
    Obj(<<FnV("Int8ToObject", NumName(JSONB_INT8), NumValues.Int8ToObject[j]),
          FnV("Uint32ToObject", NumName(JSONB_UINT32), NumValues.Uint32ToObject[j]),
          FnV("Int16ToObject", NumName(JSONB_INT16), NumValues.Int16ToObject[j]),
          FnV("Uint8ToObject", NumName(JSONB_UINT8), NumValues.Uint8ToObject[j]),
          FnV("Int32ToObject", NumName(JSONB_INT32), NumValues.Int32ToObject[j]),
          FnV("Uint16ToObject", NumName(JSONB_UINT16), NumValues.Uint16ToObject[j])>>)

WideDoc(v) ==
    Obj(<<FnV("Int64ToObject", NumName(JSONB_INT64), v),
          FnV("Uint64ToObject", NumName(JSONB_UINT64), v)>>)

\* {"a":[true,false,null]}
ArrayDoc ==
    Obj(<<FnV("ItemToObject", NameA, 0), Fn("ArrayBegin"), Fn("True"), Fn("False"),
          Fn("Null"), Fn("ArrayEnd")>>)

\* {"ab":"hi","a":true,"b":[true,{"c":1}],"o":{"a":7,"c":false},"a":5,
\*  "c":<0A 00>,"x0":null}
MixedDoc ==
    Obj(<<FnV("ItemToObject", NameAB, 0), FnV("String", <<>>, <<104, 105>>),
          FnV("ItemToObject", NameA, 0), Fn("True"),
          FnV("ItemToObject", NameB, 0), Fn("ArrayBegin"), Fn("True"),
              Fn("ObjectBegin"), FnV("Int8ToObject", NameC, 1), Fn("ObjectEnd"),
              Fn("ArrayEnd"),
          FnV("ItemToObject", NameO, 0), Fn("ObjectBegin"),
              FnV("Int8ToObject", NameA, 7),
              FnV("ItemToObject", NameC, 0), Fn("False"),
              Fn("ObjectEnd"),
          FnV("Int8ToObject", NameA, 5),
          FnV("ItemToObject", NameC, 0), FnV("Bin", <<>>, <<JSONB_TERMINATOR, 0>>),
          FnV("ItemToObject", NameX \o <<48>>, 0), Fn("Null")>>)

\* {"a":"","b":false,"ab":-1,"c":true}
PlainDoc ==
    Obj(<<FnV("ItemToObject", NameA, 0), FnV("String", <<>>, <<>>),
          FnV("ItemToObject", NameB, 0), Fn("False"),
          FnV("Int8ToObject", NameAB, 0 - 1),
          FnV("ItemToObject", NameC, 0), Fn("True")>>)

\* {"b":1.5,"c":2.5,"a":true} with 1.5 a float and 2.5 a double, and
\* [2.5,true]
RealDoc ==
    Obj(<<FnV("ItemToObject", NameB, 0), FnV("Float", <<>>, <<0, 0, 192, 63>>),
          FnV("ItemToObject", NameC, 0), FnV("Double", <<>>, <<0, 0, 0, 0, 0, 0, 4, 64>>),
          FnV("ItemToObject", NameA, 0), Fn("True")>>)

RealArrayDoc ==
    <<Fn("ArrayBegin"), FnV("Double", <<>>, <<0, 0, 0, 0, 0, 0, 4, 64>>), Fn("True"),
      Fn("ArrayEnd")>>

\* the documents, with {} and the array [true]
Docs ==
    {NumDoc(j) : j \in 1..Len(NumValues.Int8ToObject)} \cup {WideDoc(v) : v \in Int64s}
    \cup {ArrayDoc, MixedDoc, PlainDoc, RealDoc, RealArrayDoc, Obj(<<>>),
          <<Fn("ArrayBegin"), Fn("True"), Fn("ArrayEnd")>>}

\* bytes a read outside the receiver's memory may give
OobBytes == {0, JSONB_TRUE}

RdCtx0 == [buf |-> 0, buflen |-> 0, bufused |-> 0, opcode |-> JSONB_INVALID]

InitRead ==
    /\ ctx \in {jsonbFormatBegin(MemOf(<<>>, DocBufLen, 0), DocBufLen, FALSE)}
    /\ last \in {[doc |-> d, todo |-> d, op |-> "FormatBegin", framed |-> FALSE] :
                    d \in Docs}
    /\ par = Idle
    /\ trap = FALSE
    /\ cobs = Idle

\* the formatter after the call: after is the four bytes after the parameter
\* of jsonbAddInt64 and jsonbAddUint64, whatever the caller's frame holds
DocApply(c, call, after) ==
    CASE call.f = "ObjectBegin" -> jsonbAddObjectBegin(c, NoGrow)
      [] call.f = "ObjectEnd" -> jsonbAddObjectEnd(c, NoGrow)
      [] call.f = "ArrayBegin" -> jsonbAddArrayBegin(c, NoGrow)
      [] call.f = "ArrayEnd" -> jsonbAddArrayEnd(c, NoGrow)
      [] call.f = "Null" -> jsonbAddNull(c, NoGrow)
      [] call.f = "True" -> jsonbAddTrue(c, NoGrow)
      [] call.f = "False" -> jsonbAddFalse(c, NoGrow)
      [] call.f = "Float" -> jsonbAddFloat(c, call.v, NoGrow)
      [] call.f = "Double" -> jsonbAddDouble(c, call.v, NoGrow)
      [] call.f = "String" -> jsonbAddString(c, call.v, NoGrow)
      [] call.f = "Bin" -> jsonbAddBin(c, call.v, NoGrow)
      [] call.f = "ItemToObject" -> jsonbAddItemToObject(c, call.name, NoGrow)
      [] call.f = "Int8ToObject" -> jsonbAddInt8ToObject(c, call.name, call.v, NoGrow)
      [] call.f = "Int16ToObject" -> jsonbAddInt16ToObject(c, call.name, call.v, NoGrow)
      [] call.f = "Int32ToObject" -> jsonbAddInt32ToObject(c, call.name, call.v, NoGrow)
      [] call.f = "Int64ToObject" ->
             jsonbAddInt64ToObject(c, call.name, call.v, after, NoGrow)
      [] call.f = "Uint8ToObject" -> jsonbAddUint8ToObject(c, call.name, call.v, NoGrow)
      [] call.f = "Uint16ToObject" -> jsonbAddUint16ToObject(c, call.name, call.v, NoGrow)
      [] call.f = "Uint32ToObject" -> jsonbAddUint32ToObject(c, call.name, call.v, NoGrow)
      [] call.f = "Uint64ToObject" ->
             jsonbAddUint64ToObject(c, call.name, call.v, after, NoGrow)

\* the sender makes the next call of the document
DocAdd ==
    /\ last.todo # <<>>
    /\ \E after \in Afters : ctx' = DocApply(ctx, Head(last.todo), after)
    /\ last' = [last EXCEPT !.todo = Tail(last.todo), !.op = Head(last.todo).f]
    /\ UNCHANGED <<par, trap, cobs>>

DocFormatEnd ==
    /\ last.todo = <<>>
    /\ last.op \notin {"FormatEnd", "FormatBegin"}
    /\ LET r == jsonbFormatEnd(ctx)
       IN /\ ctx' = r.ctx
          /\ last' = [last EXCEPT !.op = "FormatEnd", !.framed = r.framed]
    /\ UNCHANGED <<par, trap, cobs>>

\* what the opcode field of the receiver's context, which nothing has set,
\* may hold
RdOpcodes == {JSONB_INVALID, JSONB_TRUE}

\* the receiver parses a copy of the frame
DocParse ==
    /\ last.op = "FormatEnd"
    /\ last.framed
    /\ par = Idle
    /\ \E opcode \in RdOpcodes :
           LET r == jsonbParse([RdCtx0 EXCEPT !.opcode = opcode],
                               MemOf(Used(ctx), ctx.bufused, 0), 0, ctx.bufused)
           IN par' = [op |-> "read", ok |-> r.ok, ctx |-> r.ctx, mem |-> r.mem,
                      f |-> "Parse", name |-> <<>>, res |-> r.ok, again |-> FALSE,
                      since |-> [f |-> "Parse", name |-> <<>>], seq |-> <<>>]
    /\ UNCHANGED <<ctx, last, trap, cobs>>

\* the receiver's call f(name) gives r: its context after the call and what
\* it returned
Read(f, name, r) ==
    /\ par.op = "read"
    /\ par.ok
    /\ par' = [par EXCEPT !.ctx = r.ctx, !.f = f, !.name = name, !.res = r.ret,
                          !.again = (par.f = f /\ par.name = name),
                          !.since = IF f = "EnumNext" THEN par.since
                                    ELSE [f |-> f, name |-> name],
                          !.seq = IF f # "EnumNext" THEN <<>>
                                  ELSE IF r.ret.ok THEN Append(par.seq, r.ret.opcode)
                                  ELSE par.seq]
    /\ UNCHANGED <<ctx, last, trap, cobs>>

Returned(r) == [ctx |-> r.ctx, ret |-> r]

\* the names the receiver asks for: those of the document and one more
DocNames == {last.doc[i].name : i \in DOMAIN last.doc} \cup {NameX}

RdEnum == Read("Enum", <<>>, [ctx |-> jsonbEnum(par.ctx), ret |-> TRUE])

RdEnumNext ==
    \E oob \in OobBytes :
        Read("EnumNext", <<>>, Returned(jsonbEnumNext(par.ctx, par.mem, oob)))

RdGetObjectItem ==
    \E itemName \in DocNames, oob \in OobBytes :
        Read("GetObjectItem", itemName,
             Returned(jsonbGetObjectItem(par.ctx, par.mem, itemName, oob)))

RdGetInt64 ==
    \E itemName \in DocNames, oob \in OobBytes :
        Read("GetInt64", itemName,
             jsonbGetInt64(jsonbGetObjectItem(par.ctx, par.mem, itemName, oob),
                           par.mem, oob))

RdGetUint64 ==
    \E itemName \in DocNames, oob \in OobBytes :
        Read("GetUint64", itemName,
             jsonbGetUint64(jsonbGetObjectItem(par.ctx, par.mem, itemName, oob),
                            par.mem, oob))

RdGetInt32 ==
    \E itemName \in DocNames, oob \in OobBytes :
        Read("GetInt32", itemName,
             jsonbGetInt32(jsonbGetObjectItem(par.ctx, par.mem, itemName, oob),
                           par.mem, oob))

RdGetUint32 ==
    \E itemName \in DocNames, oob \in OobBytes :
        Read("GetUint32", itemName,
             jsonbGetUint32(jsonbGetObjectItem(par.ctx, par.mem, itemName, oob),
                            par.mem, oob))

RdGetBool ==
    \E itemName \in DocNames, oob \in OobBytes :
        Read("GetBool", itemName,
             jsonbGetBool(jsonbGetObjectItem(par.ctx, par.mem, itemName, oob)))

RdGetString ==
    \E itemName \in DocNames, oob \in OobBytes :
        Read("GetString", itemName,
             jsonbGetString(jsonbGetObjectItem(par.ctx, par.mem, itemName, oob),
                            par.mem, oob))

NextRead ==
    \/ DocAdd
    \/ DocFormatEnd
    \/ DocParse
    \/ RdEnum
    \/ RdEnumNext
    \/ RdGetObjectItem
    \/ RdGetInt64
    \/ RdGetUint64
    \/ RdGetInt32
    \/ RdGetUint32
    \/ RdGetBool
    \/ RdGetString

SpecRead == InitRead /\ [][NextRead]_vars

(***************************************************************************)
(* The enumerator on its own.  The receiver's context is as jsonbParse     *)
(* leaves it over a payload: any bytes (a frame can carry any), or a       *)
(* binary element followed by JSONB_TRUE as jsonbAddBin and jsonbAddTrue   *)
(* write them.  The bytes of a binary longer than 256 are not held: no     *)
(* call made here reads them.                                              *)
(*   par   the receiver: its context and memory, the payload (p, or the    *)
(*         length binLen of the binary), the last call, the cursor before  *)
(*         it (at) and its result                                          *)
(***************************************************************************)
\* payloads of any bytes
MaxPayload == 3

EnumBytes == {0, JSONB_ITEM, JSONB_STRING, JSONB_TRUE, 97, 255}

\* lengths at the ends of the ranges of the four binary opcodes
BinLens == {0, 2, 255, 256, 65535, 65536, 16777215, 16777216}

\* the formatter after jsonbAddBin of binLen bytes and jsonbAddTrue
BinThenTrue(binLen) ==
    LET c0 == jsonbFormatBegin(<<>>, binLen + 8, FALSE)
    IN jsonbAddTrue(IF binLen <= 256 THEN jsonbAddBin(c0, Run(171, binLen), NoGrow)
                    ELSE [BinHeader(c0, binLen, NoGrow) EXCEPT !.bufused = @ + binLen],
                    NoGrow)

InitEnum ==
    /\ par \in {[op |-> "enum", ctx |-> [RdCtx0 EXCEPT !.buflen = Len(p), !.opcode = opcode],
                 mem |-> MemOf(p, Len(p), 0), p |-> p, binLen |-> Unset,
                 f |-> "Parse", at |-> 0, res |-> TRUE] :
                    p \in SeqsUpTo(EnumBytes, MaxPayload), opcode \in RdOpcodes}
               \cup
               {[op |-> "enum",
                 ctx |-> [RdCtx0 EXCEPT !.buflen = BinThenTrue(n).bufused,
                                        !.opcode = opcode],
                 mem |-> BinThenTrue(n).buf, p |-> <<>>, binLen |-> n,
                 f |-> "Parse", at |-> 0, res |-> TRUE] :
                    n \in BinLens, opcode \in RdOpcodes}
    /\ ctx = jsonbFormatBegin(<<>>, 0, FALSE)
    /\ last = Idle
    /\ trap = FALSE
    /\ cobs = Idle

EnEnum ==
    /\ par' = [par EXCEPT !.ctx = jsonbEnum(par.ctx), !.f = "Enum",
                          !.at = par.ctx.bufused, !.res = TRUE]
    /\ UNCHANGED <<ctx, last, trap, cobs>>

EnEnumNext ==
    /\ \E oob \in OobBytes :
           par' = [par EXCEPT !.ctx = jsonbEnumNext(par.ctx, par.mem, oob).ctx,
                              !.f = "EnumNext", !.at = par.ctx.bufused,
                              !.res = jsonbEnumNext(par.ctx, par.mem, oob)]
    /\ UNCHANGED <<ctx, last, trap, cobs>>

NextEnum == EnEnum \/ EnEnumNext

SpecEnum == InitEnum /\ [][NextEnum]_vars

(***************************************************************************)
(* soi2cTransaction (src/soi2c.c).  ctx is the soi2cContext_t: cfg says    *)
(* that tx, rx and delay are set, growFn that the grow callback is; buf is *)
(* the memory the caller's buffer lies in, from index 0.  The statuses the *)
(* function returns are written SOI2C_OK, SOI2C_CONFIG, ... in soi2c.c,    *)
(* names that no file of src/ defines; they are taken to be the STATUS_    *)
(* values of soi2c.h.  The function is run in steps, one per call of the   *)
(* device: the entry up to the transmit loop, one iteration of the         *)
(* transmit loop, and the two halves of an iteration of the receive loop   *)
(* (up to the tx of the read header, and from the rx on).  par holds the   *)
(* locals, the device and what was seen of the call:                       *)
(*   pc      "call", "tx", "rxreq", "rx", "done"                           *)
(*   status  the value returned, once pc = "done"                          *)
(*   dev     the bytes of the response the device has still to give        *)
(*   sent    the chunks handed to tx by the transmit loop, each with the   *)
(*           delay that followed it                                        *)
(*   recv    the data bytes of the chunks received, in arrival order       *)
(*   usedTx, usedRx   whether tx, rx were called                           *)
(*   top     one more than the largest index of buf stored to or handed to *)
(*           tx or rx                                                      *)
(* trap is the outcome of an access outside the buffer in which the        *)
(* program is stopped; in the other the access lands in flat memory.       *)
(***************************************************************************)
STATUS_OK == 0
STATUS_CONFIG == 1
STATUS_TERMINATOR == 2
STATUS_TX_BUFFER_OVERFLOW == 3
STATUS_IO_TRANSMIT == 5
STATUS_IO_TIMEOUT == 7
STATUS_IO_BAD_SIZE_RETURNED == 8
SOI2C_DEFAULT_I2C_ADDR == 23
SOI2C_NO_RESPONSE == 1
SOI2C_IGNORE_RESPONSE == 2

\* '\n'
NEWLINE == 10

\* uint8_t chunklen = 250 of the transmit loop, and its delay
TxChunkLen == 250

\* uint8_t hdrlen = 2
HdrLen == 2

\* msLeftToWait and pollMs
MsToWait == 5000
PollMs == 50

\* bufused after the for loop of the entry: the bytes up to and including
\* the first newline, or all of them
ScanNewline(mem, buflen) ==
    LET nl == {i \in 0..(buflen - 1) : mem[i] = NEWLINE}
    IN IF nl = {} THEN buflen ELSE (CHOOSE i \in nl : \A j \in nl : i <= j) + 1

\* the function up to its transmit loop; status is Unset when it goes on
soi2cBegin(c, buf, buflen) ==
    LET c0 == IF c.addr = 0 THEN [c EXCEPT !.addr = SOI2C_DEFAULT_I2C_ADDR] ELSE c
        c1 == [c0 EXCEPT !.buf = buf, !.buflen = buflen,
                         !.bufused = ScanNewline(buf, buflen)]
    IN IF ~c.cfg \/ buflen < 5 THEN [ctx |-> c0, status |-> STATUS_CONFIG]
       ELSE IF c1.bufused = 0 THEN [ctx |-> c1, status |-> STATUS_TERMINATOR]
       ELSE IF c1.buflen - c1.bufused < 1
            THEN [ctx |-> c1, status |-> STATUS_TX_BUFFER_OVERFLOW]
       ELSE [ctx |-> [c1 EXCEPT !.buf = MemMove(buf, 1, 0, c1.bufused)],
             status |-> Unset]

\* a faulty variant: what is left is not moved down after a chunk
TxShiftOmitted(mem, chunklen, left) == mem

\* memmove(&ctx->buf[1], &ctx->buf[1+chunklen], left)
TxShift(mem, chunklen, left) == MemMove(mem, 1, 1 + chunklen, left)

\* chunklen of an iteration of the transmit loop
TxChunk(left) == IF left < TxChunkLen THEN left ELSE TxChunkLen

\* chunklen after "constrain by our buffer size", in uint8_t
RxConstrain(c, chunklen) ==
    IF c.bufused + HdrLen + chunklen > c.buflen
    THEN (c.buflen - c.bufused - HdrLen) % 256
    ELSE chunklen

\* ctx->growFn(&ctx->buf, &ctx->buflen, neededBytes) as callers supply it:
\* it fails, or reallocates the buffer to neededBytes, keeping its bytes
RxGrow(c, chunklen, g) ==
    IF c.growFn /\ g /\ c.bufused + HdrLen + chunklen > c.buflen
    THEN [c EXCEPT !.buflen = c.bufused + HdrLen + chunklen,
                   !.buf = [i \in (0..(c.bufused + HdrLen + chunklen - 1))
                                      \cup DOMAIN c.buf |->
                               IF i \in DOMAIN c.buf THEN c.buf[i] ELSE 0]]
    ELSE c

\* the largest count of available bytes the device reports in its uint8_t
DevCap == 255

\* the device's answer to a read of n bytes of data when it holds dev: the
\* count still available after it, the count returned, the data, filled up
\* with zeros when it has fewer than n
DevReply(dev, n) ==
    LET returned == IF n <= Len(dev) THEN n ELSE Len(dev)
        rest == Len(dev) - returned
    IN [bytes |-> <<IF rest < DevCap THEN rest ELSE DevCap, returned>>
                  \o [k \in 1..n |-> IF k <= returned THEN dev[k] ELSE 0],
        data |-> SubSeq(dev, 1, returned),
        dev |-> SubSeq(dev, returned + 1, Len(dev))]

\* buffer sizes: too small to be accepted, the smallest, a few bytes, and
\* two that hold more than one and more than two chunks of 250 bytes
I2cBufLens == {4, 5, 8, 260, 510}

\* a request buffer whose first (and only) newline is at index k; k = buflen
\* is a buffer with no newline
Request(buflen, k) == [i \in 1..buflen |-> IF i = k + 1 THEN NEWLINE ELSE 65 + (i % 23)]

\* where the newline is put: at the start, with room after it, with two
\* bytes, one byte and no byte after it, nowhere, and at the ends of chunks
NewlineAt(buflen) ==
    {k \in {0, 1, 249, 250, 500, buflen - 3, buflen - 2, buflen - 1, buflen} :
        k >= 0 /\ k <= buflen}

\* responses: none, "{}\n", one byte with no newline, and 300 bytes
DevResps == {<<>>, <<123, 125, NEWLINE>>, <<123>>, Run(66, 299) \o <<NEWLINE>>}

I2cCtx0 ==
    [addr |-> 0, cfg |-> TRUE, growFn |-> FALSE, buf |-> <<>>, buflen |-> 0, bufused |-> 0]

InitI2c ==
    /\ \E buflen \in I2cBufLens, dev \in DevResps, growFn \in BOOLEAN, cfg \in BOOLEAN,
          flags \in {0, SOI2C_NO_RESPONSE, SOI2C_IGNORE_RESPONSE} :
          \E k \in NewlineAt(buflen) :
             /\ (~cfg \/ flags # 0) => (buflen = 8 /\ k \in {1, buflen})
             /\ Len(dev) = 1 => buflen = 8
             /\ ctx = [I2cCtx0 EXCEPT !.growFn = growFn, !.cfg = cfg]
             /\ par = [op |-> "i2c", pc |-> "call", status |-> Unset, flags |-> flags,
                       req |-> Request(buflen, k), left |-> 0, chunklen |-> 0,
                       msLeftToWait |-> 0, dev |-> dev, sent |-> <<>>, recv |-> <<>>,
                       usedTx |-> FALSE, usedRx |-> FALSE, top |-> 0]
    /\ last = Idle
    /\ trap = FALSE
    /\ cobs = Idle

\* a step of the function that leaves c2 and p2; when it touched an index
\* outside the buffer, the program may have been stopped instead
I2cStep(c2, p2) ==
    /\ ~trap
    /\ \/ /\ ctx' = c2
          /\ par' = p2
          /\ UNCHANGED <<last, trap, cobs>>
       \/ /\ p2.top > c2.buflen
          /\ trap' = TRUE
          /\ UNCHANGED <<ctx, last, par, cobs>>

Returns(p, status) == [p EXCEPT !.pc = "done", !.status = status]

Max(a, b) == IF a > b THEN a ELSE b

\* lines 33-67: the checks, the scan for the newline and the shift
I2cCall ==
    /\ par.op = "i2c"
    /\ par.pc = "call"
    /\ LET r == soi2cBegin(ctx, MemOf(par.req, Len(par.req), 0), Len(par.req))
       IN I2cStep(r.ctx,
                  IF r.status # Unset THEN Returns(par, r.status)
                  ELSE [par EXCEPT !.pc = "tx", !.left = r.ctx.bufused,
                                   !.top = r.ctx.bufused + 1])

\* lines 68-93: an iteration of the transmit loop and, after the last, the
\* test of SOI2C_NO_RESPONSE and the locals of the receive loop
I2cTransmit ==
    /\ par.op = "i2c"
    /\ par.pc = "tx"
    /\ \E ok \in BOOLEAN :
          LET chunklen == TxChunk(par.left)
              mem1 == Wr(ctx.buf, 0, chunklen)
              left == par.left - chunklen
              p1 == [par EXCEPT !.usedTx = TRUE, !.left = left,
                                !.top = Max(par.top, 1 + chunklen),
                                !.sent = Append(par.sent,
                                                [bytes |-> Slice(mem1, 0, 1 + chunklen),
                                                 delay |-> IF ok THEN TxChunkLen ELSE 0])]
          IN IF ~ok
             THEN I2cStep([ctx EXCEPT !.buf = mem1],
                          Returns([p1 EXCEPT !.left = par.left], STATUS_IO_TRANSMIT))
             ELSE I2cStep([ctx EXCEPT !.buf = TxShift(mem1, chunklen, left)],
                          IF left > 0 THEN p1
                          ELSE IF par.flags = SOI2C_NO_RESPONSE
                               THEN Returns(p1, STATUS_OK)
                          ELSE [p1 EXCEPT !.pc = "rxreq", !.msLeftToWait = MsToWait,
                                          !.chunklen = 0])

\* lines 94-115: the grow callback, the constraint, and the write of the
\* header that announces the read
I2cRxRequest ==
    /\ par.op = "i2c"
    /\ par.pc = "rxreq"
    /\ \E ok \in BOOLEAN, g \in BOOLEAN :
          LET c1 == RxGrow(ctx, par.chunklen, g)
              chunklen == RxConstrain(c1, par.chunklen)
              c2 == [c1 EXCEPT !.buf = Wr(Wr(c1.buf, c1.bufused, 0),
                                          c1.bufused + 1, chunklen)]
              p1 == [par EXCEPT !.chunklen = chunklen, !.usedTx = TRUE,
                                !.top = Max(par.top, c1.bufused + HdrLen)]
          IN I2cStep(c2, IF ok THEN [p1 EXCEPT !.pc = "rx"]
                         ELSE Returns(p1, STATUS_IO_TRANSMIT))

\* lines 117-162: the read and what follows it
I2cRxReceive ==
    /\ par.op = "i2c"
    /\ par.pc = "rx"
    /\ \E ok \in BOOLEAN :
          LET d == DevReply(par.dev, par.chunklen)
              mem1 == CopyIn(ctx.buf, ctx.bufused, d.bytes)
              availableBytes == d.bytes[1]
              returnedBytes == d.bytes[2]
              receivedNewline == \E k \in 1..Len(d.data) : d.data[k] = NEWLINE
              keep == par.flags # SOI2C_IGNORE_RESPONSE /\ par.chunklen > 0
              c2 == IF keep
                    THEN [ctx EXCEPT !.buf = MemMove(mem1, ctx.bufused,
                                                     ctx.bufused + HdrLen, par.chunklen),
                                     !.bufused = ctx.bufused + par.chunklen]
                    ELSE [ctx EXCEPT !.buf = mem1]
              p1 == [par EXCEPT !.usedRx = TRUE,
                                !.top = Max(par.top, ctx.bufused + par.chunklen + HdrLen)]
              p2 == [p1 EXCEPT !.dev = d.dev, !.recv = par.recv \o d.data,
                               !.chunklen = availableBytes]
          IN IF ~ok THEN I2cStep(ctx, Returns(p1, STATUS_IO_TRANSMIT))
             ELSE IF returnedBytes # par.chunklen
             THEN I2cStep([ctx EXCEPT !.buf = mem1],
                          Returns([p1 EXCEPT !.dev = d.dev],
                                  STATUS_IO_BAD_SIZE_RETURNED))
             ELSE IF availableBytes > 0 THEN I2cStep(c2, [p2 EXCEPT !.pc = "rxreq"])
             ELSE IF receivedNewline THEN I2cStep(c2, Returns(p2, STATUS_OK))
             ELSE IF par.msLeftToWait < PollMs
             THEN I2cStep(c2, Returns(p2, STATUS_IO_TIMEOUT))
             ELSE I2cStep(c2, [p2 EXCEPT !.pc = "rxreq",
                                         !.msLeftToWait = par.msLeftToWait - PollMs])

NextI2c ==
    \/ I2cCall
    \/ I2cTransmit
    \/ I2cRxRequest
    \/ I2cRxReceive

\* the function runs on: a step that is possible is taken
SpecI2c == InitI2c /\ [][NextI2c]_vars

\* the transactions whose request goes out in one chunk; the function runs
\* on its caller's thread with nothing to preempt it for good, so a step that
\* can be taken is taken
InitI2cSmall == InitI2c /\ Len(par.req) <= TxChunkLen

SpecI2cLive == InitI2cSmall /\ [][NextI2c]_vars /\ WF_vars(NextI2c)

\* C1: COBS round trip.  Decoding the encoding of s with the same forbidden
\* byte gives back exactly s (same length, same bytes), for every s and x,
\* the empty s, an s ending in zero and runs of 254 or more non-zero bytes
\* included.
C1_CobsRoundTrip ==
    cobs.pc = "decoded" => cobs.dec = cobs.s

\* reached: a run of 254 non-zero bytes followed by a zero, encoded with the
\* terminator as forbidden byte and decoded in place
C1_Witness ==
    /\ cobs.pc = "decoded"
    /\ cobs.s = Run(7, 254) \o <<0>>
    /\ cobs.x = JSONB_TERMINATOR
    /\ cobs.inplace
    /\ cobs.dec = cobs.s

\* C2: COBS forbidden-byte absence.  No byte of the encoding of s, code byte
\* or data byte, equals the forbidden byte x.
C2_ForbiddenByteAbsent ==
    cobs.pc \in {"encoded", "decoded"} =>
        \A i \in 1..Len(cobs.enc) : cobs.enc[i] # cobs.x

\* reached: an input that contains the forbidden byte itself and a zero
C2_Witness ==
    /\ cobs.pc = "encoded"
    /\ cobs.s = <<JSONB_TERMINATOR, 0, JSONB_TERMINATOR>>
    /\ cobs.x = JSONB_TERMINATOR
    /\ Len(cobs.enc) = 4

\* the encoding of s with forbidden byte x, by jbCobsEncode into a buffer of
\* its own
CobsOf(s, x) ==
    LET n == Len(s)
        r == jbCobsEncode(MemOf(s, n + CobsRoom(n), 0), 0, n, x, n)
    IN Slice(r.mem, n, r.len)

\* C3: frame round trip.  When jsonbFormatEnd has emitted a frame for the raw
\* payload P that the appends left, jsonbParse on buf[0..bufused) returns true
\* and leaves a parser context whose buf[0..buflen) is P byte for byte: the
\* relocation and the downward encoding overwrote no payload byte that was
\* still to be encoded.
C3_FrameRoundTrip ==
    (par.op = "ParseFrame" /\ last.framed) =>
        /\ par.ok
        /\ par.ctx.buflen = Len(last.payload)
        /\ Slice(par.mem, par.ctx.buf, par.ctx.buflen) = last.payload

\* reached: a payload of 256 bytes, more than one COBS block, framed in the
\* 270-byte buffer and parsed back
C3_Witness ==
    /\ par.op = "ParseFrame"
    /\ last.framed
    /\ Len(last.payload) = 256
    /\ par.ok
    /\ Slice(par.mem, par.ctx.buf, par.ctx.buflen) = last.payload

\* C4: after a jsonbFormatEnd that emitted a frame, buf[0..bufused) is
\* 0x7B 0x3A, the COBS encoding (forbidden byte 0x0A) of the raw payload,
\* 0x3A 0x7D, 0x0A, and its only byte equal to 0x0A is the last one.
C4_FrameShape ==
    (last.op = "FormatEnd" /\ last.framed) =>
        /\ Used(ctx) = JSONB_HEADER \o CobsOf(last.payload, JSONB_TERMINATOR)
                           \o JSONB_TRAILER \o <<JSONB_TERMINATOR>>
        /\ \A i \in 0..(ctx.bufused - 1) :
             ctx.buf[i] = JSONB_TERMINATOR <=> i = ctx.bufused - 1

\* reached: a frame whose raw payload holds the terminator byte itself
C4_Witness ==
    /\ last.op = "FormatEnd"
    /\ last.framed
    /\ \E i \in 1..Len(last.payload) : last.payload[i] = JSONB_TERMINATOR
    /\ ctx.buf[ctx.bufused - 1] = JSONB_TERMINATOR

\* C5: with no grow callback the formatter never stores to buf at an index
\* >= buflen, and bufused <= buflen in every reachable state, whatever the
\* buffer length (those below 6 included).
C5_NeverPastBuflen ==
    ~ctx.growFn =>
        /\ ctx.bufused <= ctx.buflen
        /\ \A i \in DOMAIN ctx.buf : i < ctx.buflen

\* C6: overrun is absorbing.  The jbAppendBytes that sets overrun stores
\* nothing, and once overrun is set every later append and jsonbFormatEnd
\* leave bufused and the buffer contents as they were and overrun set, and
\* emit no frame, until the next jsonbFormatBegin.
C6_OverrunAbsorbing ==
    [][LET Same(c, d) ==
               /\ d.bufused = c.bufused
               /\ \A i \in DOMAIN c.buf : d.buf[i] = c.buf[i]
       IN last'.n = last.n + 1 =>
            /\ (~ctx.overrun /\ last'.mid.overrun) => Same(ctx, last'.mid)
            /\ (~last'.mid.overrun /\ ctx'.overrun) => Same(last'.mid, ctx')
            /\ ctx.overrun => (last'.mid.overrun /\ Same(ctx, last'.mid))
            /\ last'.mid.overrun =>
                 (ctx'.overrun /\ Same(last'.mid, ctx') /\ ~last'.framed)]_vars

\* reached: an append stored bytes, a later one overran, and jsonbFormatEnd
\* was then called and emitted nothing
C6_Witness ==
    /\ last.op = "FormatEnd"
    /\ last.n = 3
    /\ ctx.overrun
    /\ ctx.bufused > 0
    /\ ~last.framed
    /\ last.payload = Used(ctx)

\* C7: a jsonbFormatEnd called with overrun and error clear that finds no room
\* to encode emits no frame and signals it: afterwards overrun or error is set
\* or bufused is 0.
C7_NoRoomSignalled ==
    (last.op = "FormatEnd" /\ ~last.framed) =>
        (ctx.overrun \/ ctx.error \/ ctx.bufused = 0)

\* the bytes of s without its leading and trailing bytes < 0x20
Trimmed(s) ==
    LET keep == {i \in 1..Len(s) : s[i] >= SPACE}
    IN IF keep = {} THEN <<>>
       ELSE SubSeq(s, CHOOSE i \in keep : \A j \in keep : i <= j,
                      CHOOSE i \in keep : \A j \in keep : i >= j)

\* s, trimmed, is "{:" then a body then ":}"
Framed(s) ==
    LET f == Trimmed(s)
    IN /\ Len(f) >= Len(JSONB_HEADER) + Len(JSONB_TRAILER)
       /\ SubSeq(f, 1, Len(JSONB_HEADER)) = JSONB_HEADER
       /\ SubSeq(f, Len(f) - Len(JSONB_TRAILER) + 1, Len(f)) = JSONB_TRAILER

\* the body of a framed s
Body(s) ==
    LET f == Trimmed(s)
    IN SubSeq(f, Len(JSONB_HEADER) + 1, Len(f) - Len(JSONB_TRAILER))

\* b, from its i-th byte on, is code bytes each followed by the data bytes it
\* announces, none of them the forbidden byte x, and ends with the last block
RECURSIVE CobsBlocks(_, _, _)
CobsBlocks(b, x, i) ==
    LET code == Xor(b[i], x)
        next == i + code
    IN /\ code # 0
       /\ next <= Len(b) + 1
       /\ \A k \in (i + 1)..(next - 1) : b[k] # x
       /\ (next <= Len(b) => CobsBlocks(b, x, next))

ValidCobs(b, x) == b # <<>> /\ CobsBlocks(b, x, 1)

\* C8: jsonbParse tolerates surrounding control bytes.  For an input F that
\* jsonbParse accepts and any pre and post of bytes < 0x20, jsonbParse on
\* pre ++ F ++ post returns true with the same decoded payload (same buflen,
\* same bytes) and the cursor bufused at 0.
C8_ControlBytesTolerated ==
    par.op = "Reparse" =>
        /\ par.ok2
        /\ par.ctx2.buflen = par.ctx.buflen
        /\ Slice(par.mem2, par.ctx2.buf, par.ctx2.buflen)
             = Slice(par.mem, par.ctx.buf, par.ctx.buflen)
        /\ par.ctx2.bufused = 0

\* reached: a frame of the payload 'a', parsed again between CR LF and LF with
\* a context an earlier use left
C8_Witness ==
    /\ par.op = "Reparse"
    /\ par.input = JSONB_HEADER \o <<8, 107>> \o JSONB_TRAILER
    /\ par.pre = <<13, JSONB_TERMINATOR>>
    /\ par.post = <<JSONB_TERMINATOR>>
    /\ par.ctx0.bufused = 1
    /\ par.ok2
    /\ Slice(par.mem2, par.ctx2.buf, par.ctx2.buflen) = <<97>>

\* C9: jsonbParse returns false when the input, trimmed of leading and
\* trailing bytes < 0x20, is empty, does not start with "{:", or does not end
\* with a ":}" that lies wholly after the header; the context fields buf,
\* buflen and bufused and the input bytes are then as they were.
C9_RejectsUnframed ==
    (par.op = "Parse" /\ ~Framed(par.input)) =>
        /\ ~par.ok
        /\ par.ctx = par.ctx0
        /\ Slice(par.mem, 0, Len(par.input)) = par.input

\* reached: the 3-byte input "{:}" with a context an earlier use left
C9_Witness ==
    /\ par.op = "Parse"
    /\ par.input = <<123, 58, 125>>
    /\ par.ctx0.bufused = 1
    /\ ~par.ok
    /\ par.ctx = par.ctx0

\* C10: jsonbParse returns false for malformed COBS: a body between "{:" and
\* ":}" that is empty, or in which a code byte announces more data bytes than
\* remain, or that holds a byte equal to 0x0A, is rejected.
C10_RejectsMalformedCobs ==
    (par.op = "Parse" /\ Framed(par.input)
        /\ ~ValidCobs(Body(par.input), JSONB_TERMINATOR)) => ~par.ok

\* C19: after a jsonbFormatEnd that emitted a frame, and before the next
\* jsonbFormatBegin, every append leaves bufused and the buffer contents as
\* they were, so buf[0..bufused) is still the frame.  Stated for the frames
\* that lie within the buffer.
C19_AppendsAfterFrameAreNoOps ==
    [][(last.op = "FormatEnd" /\ last.framed /\ ctx.bufused <= ctx.buflen
            /\ last'.n = last.n + 1 /\ last'.op # "FormatEnd") =>
          (ctx'.bufused = ctx.bufused /\ Used(ctx') = Used(ctx))]_vars

\* C20: the length jbCobsEncode returns for n input bytes is at least n + 1
\* and at most n + ceil(n / 254) + 1.
C20_EncodedLengthBound ==
    cobs.pc \in {"encoded", "decoded"} =>
        LET n == Len(cobs.s)
        IN /\ Len(cobs.enc) >= n + 1
           /\ Len(cobs.enc) <= n + ((n + 253) \div 254) + 1

\* reached: 254 non-zero bytes, whose encoding of 256 bytes meets the upper
\* bound
C20_Witness ==
    /\ cobs.pc = "encoded"
    /\ cobs.s = Run(7, 254)
    /\ Len(cobs.enc) = 256

\* the call of the document that wrote the item called name, when one call
\* only has that name
OccursOnce(name) ==
    Cardinality({i \in DOMAIN last.doc : last.doc[i].name = name}) = 1

Written(name) == last.doc[CHOOSE i \in DOMAIN last.doc : last.doc[i].name = name]

\* the 64-bit value, least significant byte first, of an integer of up to 32
\* bits: sign-extended or zero-extended
Widened(v, signed) ==
    LeBytes(v, 4) \o [k \in 1..4 |-> IF signed /\ v < 0 THEN 255 ELSE 0]

C12_WideValuesPreserved ==
    (par.op = "read" /\ par.f \in {"GetInt64", "GetUint64"} /\ OccursOnce(par.name)) =>
        /\ (Written(par.name).f = "Int64ToObject" /\ par.f = "GetInt64") =>
              par.res = Written(par.name).v
        /\ Written(par.name).f = "Uint64ToObject" => par.res = Written(par.name).v

\* the document as a tree: the items of the outermost object called name (the
\* calls with that name made at depth 1) and the first of them
Children(name) ==
    {i \in DOMAIN last.doc :
        /\ last.doc[1].f = "ObjectBegin"
        /\ name # <<>>
        /\ last.doc[i].name = name
        /\ Cardinality({k \in 1..(i - 1) : last.doc[k].f \in {"ObjectBegin", "ArrayBegin"}})
           = 1 + Cardinality({k \in 1..(i - 1) :
                                 last.doc[k].f \in {"ObjectEnd", "ArrayEnd"}})}

Child(name) == CHOOSE i \in Children(name) : \A j \in Children(name) : i <= j

\* the opcode a call writes
CallOpcode(f) ==
    CASE f \in {"ObjectBegin"} -> JSONB_BEGIN_OBJECT
      [] f \in {"ObjectEnd"} -> JSONB_END_OBJECT
      [] f \in {"ArrayBegin"} -> JSONB_BEGIN_ARRAY
      [] f \in {"ArrayEnd"} -> JSONB_END_ARRAY
      [] f \in {"Null"} -> JSONB_NULL
      [] f \in {"True"} -> JSONB_TRUE
      [] f \in {"False"} -> JSONB_FALSE
      [] f \in {"String"} -> JSONB_STRING
      [] f \in {"Float"} -> JSONB_FLOAT
      [] f \in {"Double"} -> JSONB_DOUBLE
      [] f \in {"Bin"} -> JSONB_BIN8
      [] f \in {"Int8ToObject"} -> JSONB_INT8
      [] f \in {"Int16ToObject"} -> JSONB_INT16
      [] f \in {"Int32ToObject"} -> JSONB_INT32
      [] f \in {"Int64ToObject"} -> JSONB_INT64
      [] f \in {"Uint8ToObject"} -> JSONB_UINT8
      [] f \in {"Uint16ToObject"} -> JSONB_UINT16
      [] f \in {"Uint32ToObject"} -> JSONB_UINT32
      [] f \in {"Uint64ToObject"} -> JSONB_UINT64

\* the type of the item call i writes: for jsonbAddItemToObject, that of the
\* value the next call adds
ChildType(i) ==
    IF last.doc[i].f = "ItemToObject" THEN CallOpcode(last.doc[i + 1].f)
    ELSE CallOpcode(last.doc[i].f)

\* bytes of the payload a call writes: the name with its opcode and NUL, the
\* value's opcode, the length byte of a binary, the value
CallSize(call) ==
    (IF call.name = <<>> THEN 0 ELSE Len(call.name) + 2)
    + (CASE call.f \in {"Int8ToObject", "Uint8ToObject"} -> 2
         [] call.f \in {"Int16ToObject", "Uint16ToObject"} -> 3
         [] call.f \in {"Int32ToObject", "Uint32ToObject"} -> 5
         [] call.f \in {"Int64ToObject", "Uint64ToObject"} -> 9
         [] call.f \in {"String", "Bin"} -> Len(call.v) + 2
         [] call.f \in {"Float", "Double"} -> Len(call.v) + 1
         [] call.f = "ItemToObject" -> 0
         [] OTHER -> 1)

RECURSIVE PayloadAt(_)
PayloadAt(i) == IF i = 1 THEN 0 ELSE PayloadAt(i - 1) + CallSize(last.doc[i - 1])

\* where in the payload the value of the item call i writes lies: after the
\* name, the value's opcode and a binary's length byte
ValueAt(i) ==
    IF last.doc[i].f # "ItemToObject" THEN PayloadAt(i) + Len(last.doc[i].name) + 3
    ELSE PayloadAt(i + 1) + (IF last.doc[i + 1].f = "Bin" THEN 2 ELSE 1)

\* C13: jsonbGetObjectItem(name) returns true, with the type and the value
\* pointer of the first match, for every direct child of the outermost object
\* whatever the type of its value, and false when no direct child has that
\* name; names are compared whole.
C13_FindsEveryDirectChild ==
    (par.op = "read" /\ par.f = "GetObjectItem") =>
        IF Children(par.name) = {} THEN ~par.res.ok
        ELSE /\ par.res.ok
             /\ par.res.itemType = ChildType(Child(par.name))
             /\ par.res.itemValue = par.ctx.buf + ValueAt(Child(par.name))

\* C14: jsonbGetObjectItem leaves the receiver's buffer and its length as they
\* were and changes the cursor and the last opcode only; called again with the
\* same name it gives the same boolean, type and pointer, wherever the cursor
\* was.
C14_LookupIdempotent ==
    [][(par.op = "read" /\ par'.f = "GetObjectItem") =>
          /\ par'.mem = par.mem
          /\ par'.ctx.buf = par.ctx.buf
          /\ par'.ctx.buflen = par.ctx.buflen
          /\ ctx' = ctx
          /\ par'.again =>
                /\ par'.res.ok = par.res.ok
                /\ par'.res.itemType = par.res.itemType
                /\ par'.res.itemValue = par.res.itemValue]_vars

C14_Witness ==
    /\ par.op = "read"
    /\ par.f = "GetObjectItem"
    /\ par.again
    /\ par.res.ok
    /\ par.name = NameB
    /\ last.doc = MixedDoc
    /\ par.ctx.bufused > 0

\* the direct child called name has type itemType
ChildHasType(name, itemType) ==
    Children(name) # {} /\ ChildType(Child(name)) \in itemType

\* C15: with at most one direct child called name, jsonbGetBool is true exactly
\* when that child has type JSONB_TRUE, jsonbGetString gives the stored string
\* when it has type JSONB_STRING and the empty string otherwise, and
\* jsonbGetInt64 and jsonbGetUint64 give 0 when there is no such child or its
\* type is not numeric.
C15_MissOrMismatchGivesZero ==
    (par.op = "read" /\ Cardinality(Children(par.name)) <= 1) =>
        /\ par.f = "GetBool" => (par.res <=> ChildHasType(par.name, {JSONB_TRUE}))
        /\ par.f = "GetString" =>
              par.res = IF ChildHasType(par.name, {JSONB_STRING})
                        THEN last.doc[Child(par.name) + 1].v ELSE <<>>
        /\ (par.f \in {"GetInt64", "GetUint64"}
                /\ ~ChildHasType(par.name,
                       {JSONB_INT8, JSONB_INT16, JSONB_INT32, JSONB_INT64, JSONB_UINT8,
                        JSONB_UINT16, JSONB_UINT32, JSONB_UINT64, JSONB_FLOAT,
                        JSONB_DOUBLE})) =>
              par.res = Zero64

\* the opcodes of the elements the calls after call i write, in order
Following(i) ==
    LET rest == SelectSeq(SubSeq(last.doc, i + 1, Len(last.doc)),
                          LAMBDA call : call.f # "ItemToObject")
    IN [k \in 1..Len(rest) |-> CallOpcode(rest[k].f)]

IsPrefix(s, w) == Len(s) <= Len(w) /\ s = SubSeq(w, 1, Len(s))

ValueTypes ==
    {JSONB_BEGIN_OBJECT, JSONB_END_OBJECT, JSONB_BEGIN_ARRAY, JSONB_END_ARRAY,
     JSONB_NULL, JSONB_TRUE, JSONB_FALSE, JSONB_STRING, JSONB_BIN8, JSONB_BIN16,
     JSONB_BIN24, JSONB_BIN32, JSONB_INT8, JSONB_INT16, JSONB_INT32, JSONB_INT64,
     JSONB_UINT8, JSONB_UINT16, JSONB_UINT32, JSONB_UINT64, JSONB_FLOAT,
     JSONB_DOUBLE}

\* no NUL in the payload after its first i bytes
NoNulAfter(i) == \A k \in (i + 1)..Len(par.p) : par.p[k] # 0

\* C16: jsonbEnumNext returns false when the cursor is at or past the end of
\* the payload, and when the next element is a JSONB_ITEM whose name has no
\* NUL before the end, a JSONB_STRING with no NUL before the end, or starts
\* with a byte that is not the opcode of a value.
C16_StopsOnMalformed ==
    (par.op = "enum" /\ par.binLen = Unset /\ par.f = "EnumNext") =>
        /\ par.at >= Len(par.p) => ~par.res.ok
        /\ (par.at < Len(par.p) /\ par.p[par.at + 1] \in {JSONB_ITEM, JSONB_STRING}
                /\ NoNulAfter(par.at + 1)) =>
              ~par.res.ok
        /\ (par.at < Len(par.p) /\ par.p[par.at + 1] \notin ValueTypes \cup {JSONB_ITEM}) =>
              ~par.res.ok

C16_Witness ==
    /\ par.op = "enum"
    /\ par.f = "EnumNext"
    /\ par.p = <<JSONB_TRUE, JSONB_STRING, 97>>
    /\ par.at = 1
    /\ ~par.res.ok

\* the opcode and the number of length bytes for a binary of n bytes
Narrowest(n) ==
    IF n < 256 THEN <<JSONB_BIN8, 1>>
    ELSE IF n < 65536 THEN <<JSONB_BIN16, 2>>
    ELSE IF n < 16777216 THEN <<JSONB_BIN24, 3>>
    ELSE <<JSONB_BIN32, 4>>

\* C18: jsonbAddBin writes the narrowest of BIN8, BIN16, BIN24 and BIN32 that
\* holds the length L, then L in 1, 2, 3 or 4 bytes, least significant first,
\* then the data; jsonbEnumNext on the element gives that opcode and a pointer
\* to the first byte of the data and moves the cursor L bytes past the length
\* bytes, and the element after it is decoded.
C18_BinaryElement ==
    (par.op = "enum" /\ par.binLen # Unset) =>
        /\ par.mem[0] = Narrowest(par.binLen)[1]
        /\ \A k \in 1..Narrowest(par.binLen)[2] :
              par.mem[k] = (par.binLen \div (256 ^ (k - 1))) % 256
        /\ (par.f = "EnumNext" /\ par.at = 0) =>
              /\ par.res.ok
              /\ par.res.opcode = Narrowest(par.binLen)[1]
              /\ par.res.v = par.ctx.buf + 1 + Narrowest(par.binLen)[2]
              /\ par.ctx.bufused = 1 + Narrowest(par.binLen)[2] + par.binLen
              /\ par.binLen \in 1..256 =>
                    Slice(par.mem, par.res.v, par.binLen) = Run(171, par.binLen)
        /\ (par.f = "EnumNext" /\ par.at = 1 + Narrowest(par.binLen)[2] + par.binLen) =>
              /\ par.res.ok
              /\ par.res.opcode = JSONB_TRUE
              /\ par.ctx.bufused = par.ctx.buflen

C18_Witness ==
    /\ par.op = "enum"
    /\ par.binLen = 65536
    /\ par.f = "EnumNext"
    /\ par.at = 65540
    /\ par.res.ok
    /\ par.res.opcode = JSONB_TRUE

\* C27: once overrun is set, no later append calls the grow callback or
\* changes ctx->buf or ctx->buflen, also when the append does not fit and a
\* grow callback is configured.  (The grow callback of the model is seen by
\* what it does: buflen larger by the bytes asked for.)
C27_OverrunKeepsDescriptor ==
    [][(ctx.overrun /\ last'.op \notin {"FormatBegin", "FormatEnd"}) =>
          /\ ctx'.buflen = ctx.buflen
          /\ ctx'.buf = ctx.buf]_vars

\* the index of the byte jsonbEnumNext, called with the cursor at `at` on a
\* JSONB_ITEM whose name is NUL-terminated, reads as the opcode after the
\* name
OpcodeAfterName(at) ==
    CHOOSE i \in (at + 2)..(Len(par.p) + 1) :
        (i = Len(par.p) + 1 \/ par.p[i] = 0) /\ \A k \in (at + 2)..(i - 1) : par.p[k] # 0

\* C28: jsonbEnumNext reads no byte at an index >= buflen, for every byte
\* sequence and every cursor jsonbEnumNext calls reach after jsonbEnum; and
\* when it returns true the cursor is <= buflen afterwards.
C28_ReadsInsidePayload ==
    (par.op = "enum" /\ par.binLen = Unset /\ par.f = "EnumNext") =>
        /\ par.res.ok => par.ctx.bufused <= par.ctx.buflen
        /\ (par.at < Len(par.p) /\ par.p[par.at + 1] = JSONB_ITEM
                /\ ~NoNulAfter(par.at + 1)) =>
              OpcodeAfterName(par.at) < par.ctx.buflen

\* C29: once jsonbEnumNext has returned false, every further jsonbEnumNext on
\* the context returns false, until jsonbEnum or jsonbParse is called again.
C29_EndIsStable ==
    [][(par.op = "enum" /\ par.f = "EnumNext" /\ ~par.res.ok /\ par'.f = "EnumNext") =>
          ~par'.res.ok]_vars

\* C22: enumerating the parsed payload of any document the formatter built,
\* FLOAT and DOUBLE values included, with jsonbEnum and then jsonbEnumNext
\* gives the opcodes of the elements written, in order, and then false; and
\* jsonbGetObjectItem finds every direct child, also one that follows a FLOAT
\* or DOUBLE item (the children whose value is an object are left to C13).
C22_EveryTypeEnumerated ==
    (par.op = "read" /\ last.doc \in {RealDoc, RealArrayDoc}) =>
        /\ par.since.f = "Enum" =>
              /\ IsPrefix(par.seq, Following(0))
              /\ (par.f = "EnumNext" /\ ~par.res.ok) => par.seq = Following(0)
        /\ (par.f = "GetObjectItem" /\ Children(par.name) # {}) =>
              par.res.ok /\ par.res.itemType = ChildType(Child(par.name))

\* C23: jsonbGetInt32(name) is jsonbGetInt64(name) cut to its low 32 bits and
\* jsonbGetUint32(name) is jsonbGetUint64(name) cut to its low 32 bits (the
\* results are held as bytes, least significant first), for the items that
\* are not FLOAT or DOUBLE and for the names that no item has.
C23_NarrowGettersTruncate ==
    (par.op = "read" /\ par.f \in {"GetInt32", "GetUint32"}
        /\ ~ChildHasType(par.name, {JSONB_FLOAT, JSONB_DOUBLE})) =>
        \E oob \in OobBytes :
            LET r == jsonbGetObjectItem(par.ctx, par.mem, par.name, oob)
            IN par.res = SubSeq(IF par.f = "GetInt32" THEN jsonbGetInt64(r, par.mem, oob).ret
                                ELSE jsonbGetUint64(r, par.mem, oob).ret, 1, 4)

\* reached: a UINT32 item holding 0xFFFFFFFF read with jsonbGetInt32 as -1
C23_Witness ==
    /\ par.op = "read"
    /\ par.f = "GetInt32"
    /\ last.doc = NumDoc(1)
    /\ par.name = NumName(JSONB_UINT32)
    /\ Written(par.name).v = 0 - 1
    /\ par.res = <<255, 255, 255, 255>>

\* the request as the caller supplied it, up to and including its first
\* newline
RequestLine == SubSeq(par.req, 1, ScanNewline(MemOf(par.req, Len(par.req), 0), Len(par.req)))

\* the data bytes of the chunks handed to tx, in call order
RECURSIVE ChunkData(_)
ChunkData(sent) ==
    IF sent = <<>> THEN <<>> ELSE Tail(Head(sent).bytes) \o ChunkData(Tail(sent))

\* the transmit loop has been left by its end
Transmitted == par.op = "i2c" /\ (par.pc \in {"rxreq", "rx"} \/ par.usedRx
                                  \/ (par.pc = "done" /\ par.status = STATUS_OK))

\* C21: after soi2cTransaction with flags = 0 has returned OK, buf[0..bufused)
\* as soi2cBuf reports it is the data bytes received from the device, in
\* arrival order, with nothing in front of them.
C21_ResponseAlone ==
    (par.op = "i2c" /\ par.pc = "done" /\ par.status = STATUS_OK /\ par.flags = 0) =>
        Slice(ctx.buf, 0, ctx.bufused) = par.recv

C25_UnterminatedRejected ==
    (par.op = "i2c" /\ par.pc = "done" /\ ctx.cfg /\ Len(par.req) >= 5
        /\ \A i \in 1..Len(par.req) : par.req[i] # NEWLINE) =>
        /\ par.status = STATUS_TERMINATOR
        /\ ~par.usedTx
        /\ ~par.usedRx

\* C26: soi2cTransaction returns, whatever the size of the buffer and with or
\* without a grow callback: the receive loop ends (the runs in which a store
\* outside the buffer stopped the program aside).
C26_AlwaysReturns == <>(par.pc = "done" \/ trap)

\* C30: with no grow callback and a request that passed the transmit-overflow
\* test, every index of the buffer stored to or handed to tx or rx is below
\* buflen, and the chunk length asked of the device is at most
\* buflen - bufused - 2.
C30_InsideCallersBuffer ==
    (par.op = "i2c" /\ ~ctx.growFn /\ par.pc # "call") =>
        /\ par.top <= ctx.buflen
        /\ par.pc = "rx" => par.chunklen <= ctx.buflen - ctx.bufused - HdrLen
====
